---- MODULE Spec2Model ----
(***************************************************************************)
(* A model of nanogui's display colour management: the chromaticity/matrix *)
(* engine (src/src/chroma.cpp), the per-frame colour pass of Screen        *)
(* (src/src/screen.cpp), the main loop (src/src/common.cpp), the colour    *)
(* pass and its fragment shader (src/src/colorpass.cpp); and of the        *)
(* restartable timer (src/src/rtimer.cpp).                                 *)
(***************************************************************************)
EXTENDS Integers, Sequences, FiniteSets, TLC

VARIABLES
    call,        \* chroma engine: the function applied, its arguments, its result
    platform,    \* build/platform facts fixed for a run
    environ,     \* process environment: NANOGUI_CM_SDR_WHITE_LEVEL
    glfw,        \* per window: what the windowing layer reports
    screens,     \* per window: the Screen object's fields
    frames,      \* per window: GPU operations of the last step that drew it
    run_state,   \* current_run_mode, where run() stands, whether a run() was refused
    events_left, \* window-system and application events still to come
    pass,        \* colour pass: its fields, its uniforms, the last pixel shaded
    timer,       \* RestartableTimer: its fields, its threads, its clock
    threads      \* shared fields under concurrent callers, each caller's position

vars ==
    <<call, platform, environ, glfw, screens, frames, run_state, events_left,
      pass, timer, threads>>

screen_vars == <<platform, environ, glfw, screens, frames, run_state, events_left>>

(***************************************************************************)
(* Single-precision arithmetic.  A float is a reduced fraction n/d, d > 0, *)
(* or one of the special values d = 0: n = 1 is +Inf, n = -1 is -Inf and   *)
(* n = 0 is NaN.  Every operation is exact while the result's magnitude is *)
(* at most MaxFloat and overflows to an infinity beyond it; rounding and   *)
(* signed zeros are not modelled.  MaxFloat stands for                     *)
(* std::numeric_limits<float>::max() at a magnitude TLC's integers hold.   *)
(***************************************************************************)
MaxFloat == 16

PosInf == [n |-> 1, d |-> 0]

NegInf == [n |-> -1, d |-> 0]

NaN == [n |-> 0, d |-> 0]

IAbs(i) == IF i < 0 THEN -i ELSE i

RECURSIVE GCD(_, _)
GCD(a, b) == IF b = 0 THEN a ELSE GCD(b, a % b)

\* The float nearest to the real n/d (d > 0): overflow gives an infinity.
FNorm(n, d) ==
    LET g == GCD(IAbs(n), d)
        nn == n \div g
        dd == d \div g
    IN  IF nn > MaxFloat * dd THEN PosInf
        ELSE IF -nn > MaxFloat * dd THEN NegInf
        ELSE [n |-> nn, d |-> dd]

F(i) == FNorm(i, 1)

IsNaN(a) == a.d = 0 /\ a.n = 0

IsInf(a) == a.d = 0 /\ a.n # 0

IsFinite(a) == a.d > 0

FSign(a) == IF a.n > 0 THEN 1 ELSE IF a.n < 0 THEN -1 ELSE 0

FNeg(a) == [n |-> -a.n, d |-> a.d]

FAbs(a) == [n |-> IAbs(a.n), d |-> a.d]

FAdd(a, b) ==
    IF IsNaN(a) \/ IsNaN(b) THEN NaN
    ELSE IF IsInf(a) THEN (IF IsInf(b) /\ b.n # a.n THEN NaN ELSE a)
    ELSE IF IsInf(b) THEN b
    ELSE LET g == GCD(a.d, b.d)
         IN  FNorm(a.n * (b.d \div g) + b.n * (a.d \div g), (a.d \div g) * b.d)

FSub(a, b) == FAdd(a, FNeg(b))

FMul(a, b) ==
    IF IsNaN(a) \/ IsNaN(b) THEN NaN
    ELSE IF IsInf(a) \/ IsInf(b)
         THEN (IF FSign(a) * FSign(b) = 0 THEN NaN
               ELSE [n |-> FSign(a) * FSign(b), d |-> 0])
    ELSE LET g1 == GCD(IAbs(a.n), b.d)
             g2 == GCD(IAbs(b.n), a.d)
         IN  FNorm((a.n \div g1) * (b.n \div g2), (a.d \div g2) * (b.d \div g1))

FDiv(a, b) ==
    IF IsNaN(a) \/ IsNaN(b) THEN NaN
    ELSE IF IsInf(a) THEN (IF IsInf(b) THEN NaN
                           ELSE [n |-> a.n * (IF b.n < 0 THEN -1 ELSE 1), d |-> 0])
    ELSE IF IsInf(b) THEN F(0)
    ELSE IF b.n = 0 THEN [n |-> FSign(a), d |-> 0]
    ELSE LET g1 == GCD(IAbs(a.n), IAbs(b.n))
             g2 == GCD(b.d, a.d)
         IN  FNorm((a.n \div g1) * (b.d \div g2) * FSign(b),
                   (a.d \div g2) * (IAbs(b.n) \div g1))

\* Comparisons: false as soon as an operand is NaN.
FLe(a, b) ==
    /\ ~IsNaN(a)
    /\ ~IsNaN(b)
    /\ IF IsInf(a) THEN (a.n < 0 \/ b = a)
       ELSE IF IsInf(b) THEN b.n > 0
       ELSE LET g == GCD(a.d, b.d)
            IN  a.n * (b.d \div g) <= b.n * (a.d \div g)

FGe(a, b) == FLe(b, a)

FLt(a, b) == FLe(a, b) /\ a # b

FEq(a, b) == FLe(a, b) /\ FLe(b, a)

(***************************************************************************)
(* Vectors, matrices and results.  A function that can throw returns       *)
(* either [ok |-> TRUE, val |-> v] or [ok |-> FALSE, err |-> e, what |-> w]*)
(***************************************************************************)
Vector2f(x, y) == [x |-> x, y |-> y]

Ok(v) == [ok |-> TRUE, val |-> v]

Throw(e, w) == [ok |-> FALSE, err |-> e, what |-> w]


Matrix3f(r0, r1, r2) == <<r0, r1, r2>>

Entries(M) == {M[i][j] : i \in 1..3, j \in 1..3}

AllFinite(M) == \A e \in Entries(M) : IsFinite(e)

(***************************************************************************)
(* chroma.cpp: rgb_to_xyz.  chroma = <<red, green, blue, white>>.          *)
(***************************************************************************)
FltMax == F(MaxFloat)

\* "prevent a division that rounds to zero"
WhiteYIsZero_Strict(white, Y) ==
    /\ FLe(FAbs(white.y), F(1))
    /\ FLt(FMul(FAbs(white.y), FltMax), FAbs(FMul(white.x, Y)))

WhiteYIsZero(white, Y) ==
    /\ FLe(FAbs(white.y), F(1))
    /\ FGe(FAbs(FMul(white.x, Y)), FMul(FAbs(white.y), FltMax))

WhiteX(white, Y) == FDiv(FMul(white.x, Y), white.y)

WhiteZ(white, Y) ==
    FDiv(FMul(FSub(FSub(F(1), white.x), white.y), Y), white.y)

\* The common denominator of the three scale factors.
Denominator(red, green, blue) ==
    FAdd(FAdd(FMul(red.x, FSub(blue.y, green.y)),
              FMul(blue.x, FSub(green.y, red.y))),
         FMul(green.x, FSub(red.y, blue.y)))

\* Y * (p.y - 1) + p.y * (X + Z)
Term(p, X, Y, Z) ==
    FAdd(FMul(Y, FSub(p.y, F(1))), FMul(p.y, FAdd(X, Z)))

SrN(red, green, blue, X, Y, Z) ==
    FAdd(FSub(FMul(X, FSub(blue.y, green.y)),
              FMul(green.x, Term(blue, X, Y, Z))),
         FMul(blue.x, Term(green, X, Y, Z)))

SgN(red, green, blue, X, Y, Z) ==
    FSub(FAdd(FMul(X, FSub(red.y, blue.y)),
              FMul(red.x, Term(blue, X, Y, Z))),
         FMul(blue.x, Term(red, X, Y, Z)))

SbN(red, green, blue, X, Y, Z) ==
    FAdd(FSub(FMul(X, FSub(green.y, red.y)),
              FMul(red.x, Term(green, X, Y, Z))),
         FMul(green.x, Term(red, X, Y, Z)))

\* "the primaries are colinear, which makes them unusable"
IsDegenerate(d, srn, sgn, sbn) ==
    /\ FLt(FAbs(d), F(1))
    /\ \/ FGe(FAbs(srn), FMul(FAbs(d), FltMax))
       \/ FGe(FAbs(sgn), FMul(FAbs(d), FltMax))
       \/ FGe(FAbs(sbn), FMul(FAbs(d), FltMax))

Row(S, p) == <<FMul(S, p.x), FMul(S, p.y), FMul(S, FSub(FSub(F(1), p.x), p.y))>>

\* The divisors rgb_to_xyz has divided by when it returns or throws.
rgb_to_xyz_divisors(chroma, Y) ==
    LET red == chroma[1]
        green == chroma[2]
        blue == chroma[3]
        white == chroma[4]
    IN  IF WhiteYIsZero(white, Y) THEN <<>>
        ELSE LET X == WhiteX(white, Y)
                 Z == WhiteZ(white, Y)
                 d == Denominator(red, green, blue)
             IN  IF IsDegenerate(d, SrN(red, green, blue, X, Y, Z),
                                 SgN(red, green, blue, X, Y, Z),
                                 SbN(red, green, blue, X, Y, Z))
                 THEN <<white.y, white.y>>
                 ELSE <<white.y, white.y, d, d, d>>

rgb_to_xyz(chroma, Y) ==
    LET red == chroma[1]
        green == chroma[2]
        blue == chroma[3]
        white == chroma[4]
    IN  IF WhiteYIsZero(white, Y)
        THEN Throw("invalid_argument", "Bad chromaticities: white.y cannot be zero")
        ELSE LET X == WhiteX(white, Y)
                 Z == WhiteZ(white, Y)
                 d == Denominator(red, green, blue)
                 srn == SrN(red, green, blue, X, Y, Z)
                 sgn == SgN(red, green, blue, X, Y, Z)
                 sbn == SbN(red, green, blue, X, Y, Z)
             IN  IF IsDegenerate(d, srn, sgn, sbn)
                 THEN Throw("invalid_argument",
                            "Bad chromaticities: RGBtoXYZ matrix is degenerate")
                 ELSE Ok(Matrix3f(Row(FDiv(srn, d), red),
                                  Row(FDiv(sgn, d), green),
                                  Row(FDiv(sbn, d), blue)))

(***************************************************************************)
(* inverse(Matrix3f) is declared in nanogui/vector.h: the exact inverse,   *)
(* failing on a singular matrix with the error of rgb_to_xyz.              *)
(***************************************************************************)
LCM(a, b) == (a \div GCD(a, b)) * b

\* A finite row scaled to integers without a common factor.
IntRow(r) ==
    LET L == LCM(LCM(r[1].d, r[2].d), r[3].d)
        v == [j \in 1..3 |-> r[j].n * (L \div r[j].d)]
        g == GCD(GCD(IAbs(v[1]), IAbs(v[2])), IAbs(v[3]))
    IN  IF g = 0 THEN v ELSE [j \in 1..3 |-> v[j] \div g]

IntDet(A) ==
      A[1][1] * (A[2][2] * A[3][3] - A[2][3] * A[3][2])
    - A[1][2] * (A[2][1] * A[3][3] - A[2][3] * A[3][1])
    + A[1][3] * (A[2][1] * A[3][2] - A[2][2] * A[3][1])

\* Of a finite matrix.
IsSingular(M) == IntDet([i \in 1..3 |-> IntRow(M[i])]) = 0

Det2(a, b, c, d) == FSub(FMul(a, d), FMul(b, c))

Determinant(M) ==
    FAdd(FSub(FMul(M[1][1], Det2(M[2][2], M[2][3], M[3][2], M[3][3])),
              FMul(M[1][2], Det2(M[2][1], M[2][3], M[3][1], M[3][3]))),
         FMul(M[1][3], Det2(M[2][1], M[2][2], M[3][1], M[3][2])))

Cofactor(M, i, j) ==
    LET r == [k \in 1..2 |-> IF k < i THEN k ELSE k + 1]
        c == [k \in 1..2 |-> IF k < j THEN k ELSE k + 1]
        m == Det2(M[r[1]][c[1]], M[r[1]][c[2]], M[r[2]][c[1]], M[r[2]][c[2]])
    IN  IF (i + j) % 2 = 0 THEN m ELSE FNeg(m)

\* The factor s of a finite row r = s * IntRow(r).
IntRowScale(r) ==
    LET L == LCM(LCM(r[1].d, r[2].d), r[3].d)
        v == [j \in 1..3 |-> r[j].n * (L \div r[j].d)]
        g == GCD(GCD(IAbs(v[1]), IAbs(v[2])), IAbs(v[3]))
    IN  [n |-> IF g = 0 THEN 1 ELSE g, d |-> L]

IntCofactor(A, i, j) ==
    LET r == [k \in 1..2 |-> IF k < i THEN k ELSE k + 1]
        c == [k \in 1..2 |-> IF k < j THEN k ELSE k + 1]
        m == A[r[1]][c[1]] * A[r[2]][c[2]] - A[r[1]][c[2]] * A[r[2]][c[1]]
    IN  IF (i + j) % 2 = 0 THEN m ELSE -m

\* A finite matrix is diag(s) * A with integer rows A, so its inverse is
\* adj(A) / det(A) * diag(1 / s); a matrix with an infinity or a NaN goes
\* through the cofactor formula entry by entry.
inverse(M) ==
    IF AllFinite(M)
    THEN IF IsSingular(M)
         THEN Throw("invalid_argument", "Bad chromaticities: RGBtoXYZ matrix is degenerate")
         ELSE LET A == [i \in 1..3 |-> IntRow(M[i])]
                  det == IntDet(A)
                  q(c) == LET g == GCD(IAbs(c), IAbs(det))
                          IN  [n |-> (c \div g) * (IF det < 0 THEN -1 ELSE 1),
                               d |-> IAbs(det) \div g]
              IN  Ok([i \in 1..3 |-> [j \in 1..3 |->
                        FDiv(q(IntCofactor(A, j, i)), IntRowScale(M[j]))]])
    ELSE LET det == Determinant(M)
         IN  Ok([i \in 1..3 |-> [j \in 1..3 |-> FDiv(Cofactor(M, j, i), det)]])

xyz_to_rgb(chroma, Y) ==
    LET f == rgb_to_xyz(chroma, Y)
    IN  IF f.ok THEN inverse(f.val) ELSE f


(***************************************************************************)
(* chroma.cpp: the catalogue of primary sets.  Dec(n, s) is the literal    *)
(* n/s.                                                                    *)
(***************************************************************************)
Dec(n, s) == FNorm(n, s)

white_d65 == Vector2f(Dec(31271, 100000), Dec(32902, 100000))

white_center == Vector2f(Dec(333333, 1000000), Dec(333333, 1000000))

white_c == Vector2f(Dec(310, 1000), Dec(316, 1000))

white_dci == Vector2f(Dec(314, 1000), Dec(351, 1000))

rec709_chroma ==
    <<Vector2f(Dec(6400, 10000), Dec(3300, 10000)),
      Vector2f(Dec(3000, 10000), Dec(6000, 10000)),
      Vector2f(Dec(1500, 10000), Dec(600, 10000)),
      white_d65>>

adobe_chroma ==
    <<Vector2f(Dec(6400, 10000), Dec(3300, 10000)),
      Vector2f(Dec(2100, 10000), Dec(7100, 10000)),
      Vector2f(Dec(1500, 10000), Dec(600, 10000)),
      white_d65>>

display_p3_chroma ==
    <<Vector2f(Dec(6800, 10000), Dec(3200, 10000)),
      Vector2f(Dec(2650, 10000), Dec(6900, 10000)),
      Vector2f(Dec(1500, 10000), Dec(600, 10000)),
      white_d65>>

dci_p3_chroma ==
    <<Vector2f(Dec(6800, 10000), Dec(3200, 10000)),
      Vector2f(Dec(2650, 10000), Dec(6900, 10000)),
      Vector2f(Dec(1500, 10000), Dec(600, 10000)),
      white_dci>>

bt2020_chroma ==
    <<Vector2f(Dec(7080, 10000), Dec(2920, 10000)),
      Vector2f(Dec(1700, 10000), Dec(7970, 10000)),
      Vector2f(Dec(1310, 10000), Dec(460, 10000)),
      white_d65>>

\* ituth273::ColorPrimaries, by name.
ColorPrimaries ==
    {"BT709", "Unspecified", "BT470M", "BT470BG", "SMPTE170M", "SMPTE240M",
     "Film", "BT2020", "SMPTE428", "SMPTE431", "SMPTE432", "Weird"}

\* ituth273::chroma: the primary set and what is printed to stderr.
WithWarning(c, w) == [chroma |-> c, warning |-> w]

ituth273_chroma(primaries) ==
    CASE primaries = "BT709" -> WithWarning(rec709_chroma, "")
      [] primaries = "Unspecified" ->
            WithWarning(rec709_chroma, "Unspecified color primaries. Using Rec.709 chroma.")
      [] primaries = "BT470M" ->
            WithWarning(<<Vector2f(Dec(6700, 10000), Dec(3300, 10000)),
                          Vector2f(Dec(2100, 10000), Dec(7100, 10000)),
                          Vector2f(Dec(1400, 10000), Dec(800, 10000)),
                          white_c>>, "")
      [] primaries = "BT470BG" ->
            WithWarning(<<Vector2f(Dec(6400, 10000), Dec(3300, 10000)),
                          Vector2f(Dec(2900, 10000), Dec(6000, 10000)),
                          Vector2f(Dec(1500, 10000), Dec(600, 10000)),
                          white_d65>>, "")
      [] primaries \in {"SMPTE170M", "SMPTE240M"} ->
            WithWarning(<<Vector2f(Dec(6300, 10000), Dec(3400, 10000)),
                          Vector2f(Dec(3100, 10000), Dec(5950, 10000)),
                          Vector2f(Dec(1550, 10000), Dec(700, 10000)),
                          white_d65>>, "")
      [] primaries = "Film" ->
            WithWarning(<<Vector2f(Dec(6810, 10000), Dec(3190, 10000)),
                          Vector2f(Dec(2430, 10000), Dec(6920, 10000)),
                          Vector2f(Dec(1450, 10000), Dec(490, 10000)),
                          white_c>>, "")
      [] primaries = "BT2020" -> WithWarning(bt2020_chroma, "")
      [] primaries = "SMPTE428" ->
            WithWarning(<<Vector2f(F(1), F(0)), Vector2f(F(0), F(1)),
                          Vector2f(F(0), F(0)), white_center>>, "")
      [] primaries = "SMPTE431" -> WithWarning(dci_p3_chroma, "")
      [] primaries = "SMPTE432" -> WithWarning(display_p3_chroma, "")
      [] primaries = "Weird" ->
            WithWarning(<<Vector2f(Dec(6300, 10000), Dec(3400, 10000)),
                          Vector2f(Dec(2950, 10000), Dec(6050, 10000)),
                          Vector2f(Dec(1550, 10000), Dec(770, 10000)),
                          white_d65>>, "")
      [] OTHER -> WithWarning(rec709_chroma, "Unknown color primaries. Using Rec.709 chroma.")

from_wp_primaries_Lenient(wp_primaries) ==
    CASE wp_primaries = 1 -> Ok("BT709")
      [] wp_primaries = 2 -> Ok("BT470M")
      [] wp_primaries = 3 -> Ok("BT470BG")
      [] wp_primaries = 4 -> Ok("SMPTE170M")
      [] wp_primaries = 5 -> Ok("Film")
      [] wp_primaries = 6 -> Ok("BT2020")
      [] wp_primaries = 7 -> Ok("SMPTE428")
      [] wp_primaries = 8 -> Ok("SMPTE431")
      [] wp_primaries = 9 -> Ok("SMPTE432")
      [] OTHER -> Ok("Unspecified")

from_wp_primaries(wp_primaries) ==
    CASE wp_primaries = 1 -> Ok("BT709")
      [] wp_primaries = 2 -> Ok("BT470M")
      [] wp_primaries = 3 -> Ok("BT470BG")
      [] wp_primaries = 4 -> Ok("SMPTE170M")
      [] wp_primaries = 5 -> Ok("Film")
      [] wp_primaries = 6 -> Ok("BT2020")
      [] wp_primaries = 7 -> Ok("SMPTE428")
      [] wp_primaries = 8 -> Ok("SMPTE431")
      [] wp_primaries = 9 -> Ok("SMPTE432")
      [] OTHER -> Throw("invalid_argument", "Unknown wp color primaries")

chroma_from_wp_primaries_NoAdobe(wp_primaries) ==
    LET p == from_wp_primaries(wp_primaries)
    IN  IF p.ok THEN Ok(ituth273_chroma(p.val)) ELSE p

chroma_from_wp_primaries(wp_primaries) ==
    IF wp_primaries = 10
    THEN Ok(WithWarning(adobe_chroma, ""))
    ELSE LET p == from_wp_primaries(wp_primaries)
         IN  IF p.ok THEN Ok(ituth273_chroma(p.val)) ELSE p


(***************************************************************************)
(* chroma.cpp: chroma_to_rec709_matrix.                                    *)
(***************************************************************************)
MatMul(A, B) ==
    [i \in 1..3 |-> [j \in 1..3 |->
        FAdd(FAdd(FMul(A[i][1], B[1][j]), FMul(A[i][2], B[2][j])),
             FMul(A[i][3], B[3][j]))]]

\* a * b of two results; the exception of a, else of b, when one raised.
Product(a, b) ==
    IF ~a.ok THEN a ELSE IF ~b.ok THEN b ELSE Ok(MatMul(a.val, b.val))

chroma_to_rec709_matrix_TwiceY(chroma) ==
    Product(xyz_to_rgb(rec709_chroma, F(1)), rgb_to_xyz(chroma, F(2)))

chroma_to_rec709_matrix(chroma) ==
    Product(xyz_to_rgb(rec709_chroma, F(1)), rgb_to_xyz(chroma, F(1)))

(***************************************************************************)
(* colorpass.cpp: the fragment shader.  Shader values are exact fractions  *)
(* far below the largest float, so nothing overflows.  A shaded pixel is   *)
(* one whose channels the output transfer function maps to fractions.      *)
(***************************************************************************)
Q(n, d) ==
    LET g == GCD(IAbs(n), IAbs(d))
        s == IF d < 0 THEN -1 ELSE 1
    IN  [n |-> s * (n \div g), d |-> s * (d \div g)]

QAdd(a, b) ==
    LET g == GCD(a.d, b.d)
    IN  Q(a.n * (b.d \div g) + b.n * (a.d \div g), (a.d \div g) * b.d)

QMul(a, b) ==
    LET g1 == GCD(IAbs(a.n), b.d)
        g2 == GCD(IAbs(b.n), a.d)
    IN  Q((a.n \div g1) * (b.n \div g2), (a.d \div g2) * (b.d \div g1))

QDiv(a, b) == QMul(a, Q(b.d, b.n))

clamp(x, minVal, maxVal) ==
    LET lower == IF FLt(x, minVal) THEN minVal ELSE x
    IN  IF FLt(maxVal, lower) THEN maxVal ELSE lower

(***************************************************************************)
(* Powers.  pow(x, y) of a fraction x > 0 other than 1 is kept as the      *)
(* surd it is: a shader value is a fraction, or a + b * base^e with        *)
(* fractions a, b, base and e, b # 0, base > 0.  Sums and products with    *)
(* fractions are exact, and so is the comparison with a fraction, which    *)
(* raises both sides to the denominator of e and compares the integers     *)
(* digit by digit.  pow of a negative number is undefined in GLSL; the     *)
(* shader functions are applied where every pow they evaluate is defined.  *)
(***************************************************************************)
IsQ(v) == "n" \in DOMAIN v

Surd(a, b, base, e) == [a |-> a, b |-> b, base |-> base, e |-> e]

\* A natural number as its digits in base 10000, lowest first.  Carries
\* and products are taken over halves of the digits, so that the depth of
\* every evaluation grows with the logarithm of the length.
RECURSIVE BigOf(_)
BigOf(n) == IF n = 0 THEN <<>> ELSE <<n % 10000>> \o BigOf(n \div 10000)

\* The digits of left, then those of right; the carry out of right.
BigJoin(left, right) == <<left[1] \o right[1], right[2]>>

RECURSIVE BigCarryFrom(_, _, _, _)
BigCarryOnto(s, left, mid, hi) ==
    BigJoin(left, BigCarryFrom(s, mid + 1, hi, left[2]))

\* Digits lo..hi of s with the carry added in: the digits, the carry out.
BigCarryFrom(s, lo, hi, carry) ==
    IF lo = hi THEN <<<<(s[lo] + carry) % 10000>>, (s[lo] + carry) \div 10000>>
    ELSE BigCarryOnto(s, BigCarryFrom(s, lo, (lo + hi) \div 2, carry),
                      (lo + hi) \div 2, hi)

BigWithCarry(r) == r[1] \o BigOf(r[2])

BigCarry(s) ==
    IF Len(s) = 0 THEN <<>> ELSE BigWithCarry(BigCarryFrom(s, 1, Len(s), 0))

BigAdd(a, b) ==
    BigCarry([i \in 1..(IF Len(a) < Len(b) THEN Len(b) ELSE Len(a)) |->
                 (IF i <= Len(a) THEN a[i] ELSE 0)
                 + (IF i <= Len(b) THEN b[i] ELSE 0)])

\* a * m * 10000^shift for a digit m.
BigTimes(a, m, shift) ==
    IF m = 0 \/ Len(a) = 0 THEN <<>>
    ELSE [i \in 1..shift |-> 0] \o BigCarry([i \in 1..Len(a) |-> a[i] * m])

\* a times the digits lo..hi of b.
RECURSIVE BigMulFrom(_, _, _, _)
BigMulFrom(a, b, lo, hi) ==
    IF lo = hi THEN BigTimes(a, b[lo], lo - 1)
    ELSE BigAdd(BigMulFrom(a, b, lo, (lo + hi) \div 2),
                BigMulFrom(a, b, (lo + hi) \div 2 + 1, hi))

BigMul(a, b) ==
    IF Len(a) = 0 \/ Len(b) = 0 THEN <<>> ELSE BigMulFrom(a, b, 1, Len(b))

\* n^k
RECURSIVE BigPow(_, _)
BigPow(n, k) ==
    IF k = 0 THEN <<1>>
    ELSE IF k = 1 THEN BigOf(n)
    ELSE BigMul(BigPow(n, k \div 2), BigPow(n, k - k \div 2))

\* The highest digit in which a and b, of one length, differ.
BigTopDifference(a, b) ==
    CHOOSE i \in 1..Len(a) :
        a[i] # b[i] /\ \A j \in (i + 1)..Len(a) : a[j] = b[j]

BigCmp(a, b) ==
    IF Len(a) < Len(b) THEN -1
    ELSE IF Len(a) > Len(b) THEN 1
    ELSE IF a = b THEN 0
    ELSE IF a[BigTopDifference(a, b)] < b[BigTopDifference(a, b)] THEN -1
    ELSE 1

\* The sign of base^e - t, for fractions base > 0, e > 0 and t.
PowCmp(base, e, t) ==
    IF t.n <= 0 THEN 1
    ELSE BigCmp(BigMul(BigPow(base.n, e.n), BigPow(t.d, e.d)),
                BigMul(BigPow(t.n, e.d), BigPow(base.d, e.n)))

Plus(v, q) ==
    IF IsQ(v) THEN QAdd(v, q) ELSE [v EXCEPT !.a = QAdd(@, q)]

Times(v, q) ==
    IF IsQ(v) THEN QMul(v, q)
    ELSE IF q.n = 0 THEN Q(0, 1)
    ELSE [v EXCEPT !.a = QMul(@, q), !.b = QMul(@, q)]

Over(v, q) == Times(v, Q(q.d, q.n))

\* The sign of a - b for fractions, whatever the size of the cross products.
QCmp(a, b) ==
    IF a = b THEN 0
    ELSE IF FSign(a) # FSign(b) THEN (IF FSign(a) < FSign(b) THEN -1 ELSE 1)
    ELSE FSign(a) * BigCmp(BigMul(BigOf(IAbs(a.n)), BigOf(b.d)),
                           BigMul(BigOf(IAbs(b.n)), BigOf(a.d)))

\* The sign of v - q.
Cmp(v, q) ==
    IF IsQ(v) THEN QCmp(v, q)
    ELSE FSign(v.b) * PowCmp(v.base, v.e, QDiv(QAdd(q, FNeg(v.a)), v.b))

sign(v) == Q(Cmp(v, Q(0, 1)), 1)

abs(v) == IF Cmp(v, Q(0, 1)) < 0 THEN Times(v, Q(-1, 1)) ELSE v

pow(x, y) ==
    CASE IsQ(x) /\ x.n = 0 -> Q(0, 1)
      [] IsQ(x) /\ x = Q(1, 1) -> Q(1, 1)
      [] IsQ(x) /\ x.n > 0 /\ x # Q(1, 1) -> Surd(Q(0, 1), Q(1, 1), x, y)
      [] ~IsQ(x) /\ x.a = Q(0, 1) /\ x.b = Q(1, 1) /\ QMul(x.e, y) = Q(1, 1) ->
            x.base
      [] ~IsQ(x) /\ x.a = Q(0, 1) /\ x.b = Q(1, 1) /\ QMul(x.e, y) # Q(1, 1) ->
            Surd(Q(0, 1), Q(1, 1), x.base, QMul(x.e, y))

vec3(x) == <<x, x, x>>

lessThanEqual(x, y) == [i \in 1..3 |-> Cmp(x[i], y[i]) <= 0]

\* mix(a, b, vec3(mask)) = a * (1 - t) + b * t with t either 0 or 1.
mixb(a, b, mask) == [i \in 1..3 |-> IF mask[i] THEN b[i] ELSE a[i]]

CM_TRANSFER_FUNCTION_BT1886 == 1

CM_TRANSFER_FUNCTION_GAMMA22 == 2

CM_TRANSFER_FUNCTION_GAMMA28 == 3

CM_TRANSFER_FUNCTION_ST240 == 4

CM_TRANSFER_FUNCTION_EXT_LINEAR == 5

CM_TRANSFER_FUNCTION_LOG_100 == 6

CM_TRANSFER_FUNCTION_LOG_316 == 7

CM_TRANSFER_FUNCTION_XVYCC == 8

CM_TRANSFER_FUNCTION_SRGB == 9

CM_TRANSFER_FUNCTION_EXT_SRGB == 10

CM_TRANSFER_FUNCTION_ST2084_PQ == 11

CM_TRANSFER_FUNCTION_ST428 == 12

CM_TRANSFER_FUNCTION_HLG == 13

SRGB_POW == Q(24, 10)

SRGB_CUT == Q(31308, 10000000)

SRGB_SCALE == Q(1292, 100)

SRGB_ALPHA == Q(1055, 1000)

BT1886_POW == QDiv(Q(1, 1), Q(45, 100))

\* 0.018053968510807 as the single-precision float the literal denotes.
BT1886_CUT == Q(9692651, 536870912)

BT1886_SCALE == Q(45, 10)

\* 1.0 + 5.5 * BT1886_CUT, rounded to single precision as the sum is.
BT1886_ALPHA == Q(4610785, 4194304)

ST240_POW == QDiv(Q(1, 1), Q(45, 100))

ST240_CUT == Q(228, 10000)

ST240_SCALE == Q(4, 1)

ST240_ALPHA == Q(11115, 10000)

InvLinPowHi(x, gamma, alpha) ==
    pow(Over(Plus(Plus(x, alpha), Q(-1, 1)), alpha), gamma)

tfInvLinPow(color, gamma, thres, scale, alpha) ==
    mixb([i \in 1..3 |-> InvLinPowHi(color[i], gamma, alpha)],
         [i \in 1..3 |-> Over(color[i], scale)],
         lessThanEqual(color, vec3(QMul(thres, scale))))

tfInvSRGB(color) == tfInvLinPow(color, SRGB_POW, SRGB_CUT, SRGB_SCALE, SRGB_ALPHA)

\* sign(color) * f: the product channel by channel.
Mirrored(color, f) == [i \in 1..3 |-> Times(f[i], sign(color[i]))]

Abs3(color) == [i \in 1..3 |-> abs(color[i])]

tfInvExtSRGB(color) == Mirrored(color, tfInvSRGB(Abs3(color)))

tfInvBT1886(color) ==
    tfInvLinPow(color, BT1886_POW, BT1886_CUT, BT1886_SCALE, BT1886_ALPHA)

tfInvXVYCC(color) == Mirrored(color, tfInvBT1886(Abs3(color)))

tfInvST240(color) ==
    tfInvLinPow(color, ST240_POW, ST240_CUT, ST240_SCALE, ST240_ALPHA)

LinPowHi(x, gamma, alpha) ==
    Plus(Times(pow(x, QDiv(Q(1, 1), gamma)), alpha), FNeg(QAdd(alpha, Q(-1, 1))))

tfLinPow_NoOffset(color, gamma, thres, scale, alpha) ==
    mixb([i \in 1..3 |-> Times(pow(color[i], QDiv(Q(1, 1), gamma)), alpha)],
         [i \in 1..3 |-> Times(color[i], scale)],
         lessThanEqual(color, vec3(thres)))

\* The branch of every channel taken from the first one.
tfLinPow_ScalarBranch(color, gamma, thres, scale, alpha) ==
    mixb([i \in 1..3 |-> LinPowHi(color[i], gamma, alpha)],
         [i \in 1..3 |-> Times(color[i], scale)],
         vec3(Cmp(color[1], thres) <= 0))

tfLinPow(color, gamma, thres, scale, alpha) ==
    mixb([i \in 1..3 |-> LinPowHi(color[i], gamma, alpha)],
         [i \in 1..3 |-> Times(color[i], scale)],
         lessThanEqual(color, vec3(thres)))

tfSRGB(color) == tfLinPow(color, SRGB_POW, SRGB_CUT, SRGB_SCALE, SRGB_ALPHA)

tfExtSRGB(color) == Mirrored(color, tfSRGB(Abs3(color)))

tfBT1886(color) ==
    tfLinPow(color, BT1886_POW, BT1886_CUT, BT1886_SCALE, BT1886_ALPHA)

tfXVYCC_Unmirrored(color) == tfBT1886(Abs3(color))

tfXVYCC(color) == Mirrored(color, tfBT1886(Abs3(color)))

tfST240(color) == tfLinPow(color, ST240_POW, ST240_CUT, ST240_SCALE, ST240_ALPHA)

\* The transfer functions the if/else chains are modelled for: the linear
\* one, the linear+power ones and their mirrored variants, and the final
\* else, which every code outside 1..13 takes.
ModelledTransfers ==
    {CM_TRANSFER_FUNCTION_EXT_LINEAR, CM_TRANSFER_FUNCTION_SRGB,
     CM_TRANSFER_FUNCTION_EXT_SRGB}

toLinearRGB(color, tf) ==
    CASE tf = CM_TRANSFER_FUNCTION_EXT_LINEAR -> color
      [] tf = CM_TRANSFER_FUNCTION_EXT_SRGB -> tfInvExtSRGB(color)
      [] tf = CM_TRANSFER_FUNCTION_BT1886 -> tfInvBT1886(color)
      [] tf = CM_TRANSFER_FUNCTION_ST240 -> tfInvST240(color)
      [] tf = CM_TRANSFER_FUNCTION_XVYCC -> tfInvXVYCC(color)
      [] tf = CM_TRANSFER_FUNCTION_SRGB \/ tf \notin 1..13 -> tfInvSRGB(color)

fromLinearRGB(color, tf) ==
    CASE tf = CM_TRANSFER_FUNCTION_EXT_LINEAR -> color
      [] tf = CM_TRANSFER_FUNCTION_EXT_SRGB -> tfExtSRGB(color)
      [] tf = CM_TRANSFER_FUNCTION_BT1886 -> tfBT1886(color)
      [] tf = CM_TRANSFER_FUNCTION_ST240 -> tfST240(color)
      [] tf = CM_TRANSFER_FUNCTION_XVYCC -> tfXVYCC(color)
      [] tf = CM_TRANSFER_FUNCTION_SRGB \/ tf \notin 1..13 -> tfSRGB(color)

transferWhiteLevel_XvYCC80(tf) ==
    IF tf = CM_TRANSFER_FUNCTION_ST2084_PQ THEN Q(10000, 1)
    ELSE IF tf = CM_TRANSFER_FUNCTION_HLG THEN Q(1000, 1)
    ELSE IF tf = CM_TRANSFER_FUNCTION_BT1886 THEN Q(100, 1)
    ELSE Q(80, 1)

transferWhiteLevel(tf) ==
    IF tf = CM_TRANSFER_FUNCTION_ST2084_PQ THEN Q(10000, 1)
    ELSE IF tf = CM_TRANSFER_FUNCTION_HLG THEN Q(1000, 1)
    ELSE IF tf = CM_TRANSFER_FUNCTION_BT1886 THEN Q(100, 1)
    ELSE IF tf = CM_TRANSFER_FUNCTION_XVYCC THEN Q(100, 1)
    ELSE Q(80, 1)

\* mat3 * vec3.
MatVec(M, v) ==
    [i \in 1..3 |-> QAdd(QAdd(QMul(M[i][1], v[1]), QMul(M[i][2], v[2])),
                         QMul(M[i][3], v[3]))]

\* main(): the nits value before the luminance clamp.
Scaled(k, v) == [i \in 1..3 |-> QMul(k, v[i])]

linear_nits(u, color) ==
    MatVec(u.display_color_matrix,
           Scaled(u.display_sdr_white_level,
                  toLinearRGB(color, CM_TRANSFER_FUNCTION_EXT_SRGB)))

\* main(): the luminance clamp.
clamp_nits(u, nits) ==
    IF FLt(Q(0, 1), u.max_luminance)
    THEN [i \in 1..3 |-> clamp(nits[i], u.min_luminance, u.max_luminance)]
    ELSE nits

\* What fromLinearRGB is applied to.
encoder_input(u, nits) ==
    [i \in 1..3 |-> QDiv(nits[i], transferWhiteLevel(u.out_transfer_function))]

\* main(): dither and the clamp to the unit interval.
write_color(u, encoded, noise) ==
    IF u.clip_to_unit_interval
    THEN [i \in 1..3 |-> clamp(QAdd(encoded[i], noise), Q(0, 1), Q(1, 1))]
    ELSE [i \in 1..3 |-> QAdd(encoded[i], noise)]

Encoded(u, nits) == fromLinearRGB(encoder_input(u, nits), u.out_transfer_function)

Shaded(u, color, unclamped, nits, encoded, noise) ==
    [source |-> color, unclamped |-> unclamped, nits |-> nits, encoded |-> encoded,
     color |-> write_color(u, encoded, noise)]

\* main(): `texel` is the dither matrix cell the fragment's ditherUv
\* samples; the alpha channel is left out.
fragment_main(u, dither_texture, color, texel) ==
    Shaded(u, color, linear_nits(u, color),
           clamp_nits(u, linear_nits(u, color)),
           Encoded(u, clamp_nits(u, linear_nits(u, color))),
           dither_texture[texel])

(***************************************************************************)
(* colorpass.cpp: dither_matrix, ColorPass::ColorPass and                  *)
(* ColorPass::configure; screen.cpp: the same pass built inline by Screen. *)
(* The destination is the window's framebuffer, which the quad is drawn    *)
(* into; the colour texture is the intermediate target the quad samples.   *)
(***************************************************************************)
DITHER_MATRIX_SIZE == 8

BayerMatrix ==
    << 0, 32,  8, 40,  2, 34, 10, 42,
      48, 16, 56, 24, 50, 18, 58, 26,
      12, 44,  4, 36, 14, 46,  6, 38,
      60, 28, 52, 20, 62, 30, 54, 22,
       3, 35, 11, 43,  1, 33,  9, 41,
      51, 19, 59, 27, 49, 17, 57, 25,
      15, 47,  7, 39, 13, 45,  5, 37,
      63, 31, 55, 23, 61, 29, 53, 21>>

dither_matrix_Unscaled(scale) ==
    [i \in 1..(DITHER_MATRIX_SIZE * DITHER_MATRIX_SIZE) |->
        QAdd(QDiv(QDiv(Q(BayerMatrix[i], 1), Q(DITHER_MATRIX_SIZE, 1)),
                  Q(DITHER_MATRIX_SIZE, 1)),
             Q(-1, 2))]

dither_matrix(scale) ==
    [i \in 1..(DITHER_MATRIX_SIZE * DITHER_MATRIX_SIZE) |->
        QMul(QAdd(QDiv(QDiv(Q(BayerMatrix[i], 1), Q(DITHER_MATRIX_SIZE, 1)),
                       Q(DITHER_MATRIX_SIZE, 1)),
                  Q(-1, 2)),
             scale)]

ComponentFormats == {"UInt8", "Float16", "Float32"}

\* Framebuffers a window can have: fixed point with 8 or 10 bits, or half float.
Framebuffers ==
    {[float |-> FALSE, bits |-> 8], [float |-> FALSE, bits |-> 10],
     [float |-> TRUE, bits |-> 16]}

NoUniforms ==
    [display_sdr_white_level |-> Q(0, 1),
     out_transfer_function |-> 0,
     display_color_matrix |-> <<>>,
     min_luminance |-> Q(0, 1),
     max_luminance |-> Q(0, 1),
     clip_to_unit_interval |-> FALSE]

NoFragment ==
    [source |-> <<>>, unclamped |-> <<>>, nits |-> <<>>, encoded |-> <<>>,
     color |-> <<>>]

\* No concurrent callers.
NoThreads == [scenario |-> "none"]

NoPass ==
    [status |-> "none",
     owner |-> "",
     color_texture |-> "",
     destination |-> [float |-> FALSE, bits |-> 0],
     m_float_buffer |-> FALSE,
     dither_scale |-> Q(0, 1),
     m_dither_matrix |-> <<>>,
     configured |-> FALSE,
     raised |-> "",
     uniforms |-> NoUniforms,
     texel |-> 0,
     fragment |-> NoFragment]

\* const float dither_scale = float_buffer ? 0 : 1 / (1u << bits)
dither_scale_of(float_buffer, bits) ==
    IF float_buffer THEN Q(0, 1) ELSE Q(1, 2 ^ bits)

\* ColorPass::ColorPass(color_texture, ..., bits_per_channel)
ColorPass_ctor(color_texture, bits_per_channel) ==
    LET float_buffer == color_texture \in {"Float16", "Float32"}
    IN  [NoPass EXCEPT
            !.status = "ok",
            !.owner = "ColorPass",
            !.color_texture = color_texture,
            !.m_float_buffer = float_buffer,
            !.dither_scale = dither_scale_of(float_buffer, bits_per_channel),
            !.m_dither_matrix =
                dither_matrix(dither_scale_of(float_buffer, bits_per_channel))]

\* Screen::Screen and Screen::initialize: float_buffer is what the caller
\* asked for, red_bits what the window got.
Screen_color_pass(float_buffer, red_bits) ==
    LET m_float_buffer == float_buffer /\ ~(red_bits < 16)
    IN  [NoPass EXCEPT
            !.status = "ok",
            !.owner = "Screen",
            !.color_texture = "Float32",
            !.m_float_buffer = m_float_buffer,
            !.dither_scale = dither_scale_of(m_float_buffer, red_bits),
            !.m_dither_matrix =
                dither_matrix(dither_scale_of(m_float_buffer, red_bits))]

\* What the windowing layer reports for the pass's window.
PassWindows ==
    [primaries : {1, 11},
     transfer : ModelledTransfers,
     white : {Q(80, 1), Q(203, 1)},
     min_luminance : {Q(0, 1), Q(1, 8)},
     max_luminance : {Q(0, 1), Q(80, 1)}]

\* ColorPass::configure(window, display_sdr_white_level_override), and the
\* same uniforms as Screen::draw_teardown sets them.
set_uniforms(p, window, display_sdr_white_level, display_color_matrix) ==
    IF ~display_color_matrix.ok
    THEN [p EXCEPT !.raised = display_color_matrix.what,
                   !.uniforms.display_sdr_white_level = display_sdr_white_level,
                   !.uniforms.out_transfer_function = window.transfer]
    ELSE [p EXCEPT
            !.raised = "",
            !.configured = TRUE,
            !.uniforms =
                [display_sdr_white_level |-> display_sdr_white_level,
                 out_transfer_function |-> window.transfer,
                 display_color_matrix |-> display_color_matrix.val,
                 min_luminance |-> window.min_luminance,
                 max_luminance |-> window.max_luminance,
                 clip_to_unit_interval |-> ~p.m_float_buffer]]

\* inverse(m) of a result m; m itself when it is an exception.
Inverted(m) == IF m.ok THEN inverse(m.val) ELSE m

\* inverse(chroma_to_rec709_matrix(display_chroma))
display_color_matrix(display_chroma) ==
    IF display_chroma.ok
    THEN Inverted(chroma_to_rec709_matrix(display_chroma.val.chroma))
    ELSE display_chroma

configure(p, window, display_sdr_white_level_override) ==
    set_uniforms(p, window,
                 IF FLt(Q(0, 1), display_sdr_white_level_override)
                 THEN display_sdr_white_level_override ELSE window.white,
                 display_color_matrix(chroma_from_wp_primaries(window.primaries)))

(***************************************************************************)
(* rtimer.cpp: RestartableTimer.  Time is a clock of ticks; m_delay is     *)
(* Delay ticks.  Every critical section on m_mutex is one step, so the     *)
(* mutex itself is not a field: restart(), clear(), the locked part of the *)
(* destructor, and each stretch of run() from one wait to the next.  The   *)
(* worker's positions are                                                  *)
(*   "start"     created, m_mutex not yet taken (line 39),                 *)
(*   "idle"      in m_cv.wait (line 44),                                   *)
(*   "counting"  in m_cv.wait_until (line 50),                             *)
(*   "expired"   m_mutex released (line 59), m_callback not yet entered,   *)
(*   "callback"  inside m_callback (line 60),                              *)
(*   "done"      run() has returned.                                       *)
(* The fields after `now` record what the claims speak about.              *)
(***************************************************************************)
Delay == 2

MaxTime == 5

NoTimer ==
    [m_should_exit |-> FALSE,
     m_timer_active |-> FALSE,
     m_deadline |-> 0,
     worker |-> "start",
     wait_deadline |-> 0,
     signaled |-> FALSE,
     owner |-> "alive",
     now |-> 0,
     restarted_at |-> -1,
     cleared |-> FALSE,
     stale |-> FALSE,
     fired |-> 0,
     started_early |-> FALSE,
     started_after_clear |-> FALSE,
     pending_at_exit |-> FALSE,
     fired_at_exit |-> FALSE,
     started_after_join |-> FALSE]

Waiting(t) == t.worker \in {"idle", "counting"}

notify_one_Lost(t) == t

\* m_cv.notify_one(): wakes the worker if it waits, and is lost otherwise.
notify_one(t) == IF Waiting(t) THEN [t EXCEPT !.signaled = TRUE] ELSE t

\* run() at the head of its outer loop (line 41) with m_mutex held, up to
\* the wait it blocks in.
Park(t) ==
    IF t.m_should_exit THEN [t EXCEPT !.worker = "done", !.signaled = FALSE]
    ELSE IF ~t.m_timer_active THEN [t EXCEPT !.worker = "idle", !.signaled = FALSE]
    ELSE [t EXCEPT !.worker = "counting", !.signaled = FALSE,
                   !.wait_deadline = t.m_deadline]

\* run() after m_cv.wait_until has returned (lines 52-65).
AfterWaitUntil(t) ==
    IF t.m_should_exit \/ ~t.m_timer_active THEN Park(t)
    ELSE IF t.now >= t.m_deadline
    THEN [t EXCEPT !.m_timer_active = FALSE, !.worker = "expired", !.signaled = FALSE,
                   !.fired_at_exit = @ \/ t.owner # "alive"]
    ELSE [t EXCEPT !.worker = "counting", !.signaled = FALSE,
                   !.wait_deadline = t.m_deadline]

\* `stale`: the worker has found an earlier deadline reached and has not
\* entered m_callback yet; `fired` counts the entries into m_callback for
\* the countdown this call starts.
Restarted(t) ==
    [t EXCEPT !.m_deadline = t.now + Delay,
              !.restarted_at = t.now,
              !.cleared = FALSE,
              !.stale = t.worker = "expired",
              !.fired = 0]

restart_Silent(t) ==
    IF ~t.m_timer_active
    THEN [Restarted(t) EXCEPT !.m_timer_active = TRUE]
    ELSE Restarted(t)

restart(t) ==
    IF ~t.m_timer_active
    THEN notify_one([Restarted(t) EXCEPT !.m_timer_active = TRUE])
    ELSE Restarted(t)

clear(t) == [t EXCEPT !.m_timer_active = FALSE, !.cleared = TRUE]

\* ~RestartableTimer(), lines 14-19; m_worker.join() returns in JoinReturns.
Destructor(t) ==
    notify_one([t EXCEPT !.m_should_exit = TRUE,
                         !.m_timer_active = FALSE,
                         !.owner = "joining",
                         !.pending_at_exit = t.m_timer_active])

\* The worker enters m_callback.
EnterCallback(t) ==
    [t EXCEPT !.worker = "callback",
              !.stale = FALSE,
              !.fired = IF t.stale THEN @ ELSE @ + 1,
              !.started_early =
                  @ \/ (t.restarted_at >= 0 /\ t.now < t.restarted_at + Delay),
              !.started_after_clear = @ \/ t.cleared,
              !.started_after_join = @ \/ t.owner = "destroyed"]

(***************************************************************************)
(* Windows.  A size is the edge of a square framebuffer in pixels; 0 is a  *)
(* minimised window.  The window size and the framebuffer size agree       *)
(* (pixel ratio 1).  A display profile is what the windowing layer reports *)
(* for the window's output: primaries code, transfer function, SDR white   *)
(* level in nits.                                                          *)
(***************************************************************************)
NumScreens == 2

MaxSize == 2

Screens == 1..NumScreens

Sizes == 0..MaxSize

DisplayProfiles ==
    {[primaries |-> 1, transfer |-> 10, white |-> 80],
     [primaries |-> 6, transfer |-> 11, white |-> 203],
     [primaries |-> 11, transfer |-> 9, white |-> 80]}

RunModes == {"VSync", "Lazy"}

MaxEvents == 2

Platforms ==
    {[win32 |-> FALSE, shader_compiles |-> TRUE, depth_stencil |-> TRUE],
     [win32 |-> TRUE, shader_compiles |-> TRUE, depth_stencil |-> FALSE],
     [win32 |-> FALSE, shader_compiles |-> FALSE, depth_stencil |-> TRUE]}

Unset == [set |-> FALSE, value |-> <<>>]

Getenv(str) == [set |-> TRUE, value |-> str]

EnvValues == {Unset, Getenv(<<>>), Getenv(<<"2", "0", "3">>)}

NullTexture == [present |-> FALSE, size |-> 0]

Texture(size) == [present |-> TRUE, size |-> size]

RenderPass(size) == [present |-> TRUE, size |-> size]

resize(target, size) == IF target.present THEN [target EXCEPT !.size = size] ELSE target

NoOverride == [has |-> FALSE, value |-> 0]

NoWindow ==
    [fbsize |-> 0, should_close |-> FALSE, pending |-> FALSE,
     profile |-> [primaries |-> 1, transfer |-> 10, white |-> 80]]

NoScreen ==
    [status |-> "none",
     m_visible |-> FALSE,
     m_process_events |-> FALSE,
     m_redraw |-> FALSE,
     m_fbsize |-> 0,
     m_wants_color_management |-> FALSE,
     m_display_sdr_white_level_override |-> NoOverride,
     m_cm_texture |-> NullTexture,
     m_cm_depth_texture |-> NullTexture,
     m_cm_render_pass |-> NullTexture,
     m_cm_shader |-> FALSE]

(***************************************************************************)
(* std::stof on a string of characters: the longest prefix of decimal      *)
(* digits is converted; no digits at the start is std::invalid_argument.   *)
(* Leading blanks, signs, fractions and exponents are not in the strings   *)
(* the model feeds it.                                                     *)
(***************************************************************************)
DigitChars == <<"0", "1", "2", "3", "4", "5", "6", "7", "8", "9">>

IsDigit(c) == \E i \in 1..10 : DigitChars[i] = c

DigitValue(c) == (CHOOSE i \in 1..10 : DigitChars[i] = c) - 1

RECURSIVE ParseDigits(_, _, _)
ParseDigits(str, i, acc) ==
    IF i > Len(str) \/ ~IsDigit(str[i])
    THEN [value |-> acc, consumed |-> i - 1]
    ELSE ParseDigits(str, i + 1, acc * 10 + DigitValue(str[i]))

stof(str) ==
    LET p == ParseDigits(str, 1, 0)
    IN  IF p.consumed = 0
        THEN Throw("invalid_argument", "stof")
        ELSE Ok(p.value)

(***************************************************************************)
(* Screen::Screen and Screen::initialize.  `g` is the window just created, *)
(* `ub` the outcome of calling set_buffer through the null m_cm_shader     *)
(* left behind by a failed shader build: the process dies ("segfault") or  *)
(* the call has no effect ("no_effect").                                   *)
(***************************************************************************)
UBOutcomes == {"segfault", "no_effect"}

initialize(scr, g, ub) ==
    LET s1 == [scr EXCEPT !.m_fbsize = g.fbsize,
                          !.m_visible = FALSE,
                          !.m_process_events = TRUE,
                          !.m_redraw = TRUE]
        s2 == [s1 EXCEPT !.m_cm_texture = Texture(s1.m_fbsize),
                         !.m_cm_depth_texture =
                             IF platform.depth_stencil
                             THEN Texture(s1.m_fbsize) ELSE NullTexture,
                         !.m_cm_render_pass = RenderPass(s1.m_fbsize)]
    IN  IF ~s1.m_wants_color_management THEN s1
        ELSE IF platform.shader_compiles THEN [s2 EXCEPT !.m_cm_shader = TRUE]
        ELSE IF ub = "segfault" THEN [s2 EXCEPT !.status = "crashed"]
        ELSE s2

Screen_ctor(g, ub) ==
    LET queried == g.profile.white
        cached  == IF platform.win32
                   THEN [has |-> TRUE, value |-> queried] ELSE NoOverride
        parsed  == IF environ.set THEN stof(environ.value) ELSE Ok(queried)
    IN  IF ~parsed.ok
        THEN [NoScreen EXCEPT !.status = "threw"]
        ELSE LET override == IF environ.set
                             THEN [has |-> TRUE, value |-> parsed.val]
                             ELSE cached
                 display_sdr_white_level == parsed.val
                 wants == \/ g.profile.primaries # 1
                          \/ g.profile.transfer # 10
                          \/ display_sdr_white_level # 80
             IN  initialize(
                     [NoScreen EXCEPT
                          !.status = "ok",
                          !.m_display_sdr_white_level_override = override,
                          !.m_wants_color_management = wants,
                          !.m_fbsize = g.fbsize],
                     g, ub)

set_visible(scr, visible) ==
    IF scr.m_visible # visible THEN [scr EXCEPT !.m_visible = visible] ELSE scr

(***************************************************************************)
(* Drawing.  A drawing context carries the Screen's fields, the GPU        *)
(* operations issued so far (each with the sizes it saw) and the message   *)
(* of the exception in flight ("" when none).                              *)
(***************************************************************************)
Op(name, scr) ==
    [op |-> name,
     fbsize |-> scr.m_fbsize,
     color |-> scr.m_cm_texture,
     depth |-> scr.m_cm_depth_texture,
     pass |-> scr.m_cm_render_pass]

Ctx(scr) == [scr |-> scr, ops |-> <<>>, raised |-> ""]

Issue(ctx, name) == [ctx EXCEPT !.ops = Append(@, Op(name, ctx.scr))]

applies_color_management(scr) == scr.m_cm_render_pass.present /\ scr.m_cm_shader

draw_setup(ctx, g) ==
    LET c1 == IF applies_color_management(ctx.scr)
              THEN Issue(ctx, "pass_begin") ELSE ctx
    IN  [c1 EXCEPT !.scr.m_fbsize = g.fbsize]

draw_contents(ctx) == Issue(ctx, "contents")

draw_widgets(ctx) == Issue(ctx, "widgets")

draw_teardown_QuadFirst(ctx, g) ==
    IF applies_color_management(ctx.scr)
    THEN LET display_chroma == chroma_from_wp_primaries(g.profile.primaries)
         IN  IF ~display_chroma.ok
             THEN [Issue(ctx, "configure_raised") EXCEPT !.raised = display_chroma.what]
             ELSE Issue(Issue(Issue(Issue(ctx, "configure"), "quad"), "pass_end"), "swap")
    ELSE Issue(ctx, "swap")

draw_teardown(ctx, g) ==
    IF applies_color_management(ctx.scr)
    THEN LET c1 == Issue(ctx, "pass_end")
             display_chroma == chroma_from_wp_primaries(g.profile.primaries)
         IN  IF ~display_chroma.ok
             THEN [Issue(c1, "configure_raised") EXCEPT !.raised = display_chroma.what]
             ELSE Issue(Issue(Issue(c1, "configure"), "quad"), "swap")
    ELSE Issue(ctx, "swap")

\* `m_redraw = false` is reached only if nothing was thrown before it.
ClearRedraw(ctx) ==
    IF ctx.raised # "" THEN ctx ELSE [ctx EXCEPT !.scr.m_redraw = FALSE]

draw_all(scr, g, mode) ==
    IF mode # "Lazy" \/ scr.m_redraw
    THEN ClearRedraw(
             draw_teardown(draw_widgets(draw_contents(draw_setup(Ctx(scr), g))), g))
    ELSE Ctx(scr)

redraw(scr) == [scr EXCEPT !.m_redraw = TRUE]

resize_event(scr, g, mode) == draw_all([scr EXCEPT !.m_redraw = TRUE], g, mode)

\* The exception of resize_event, if any, is caught and logged; redraw().
CatchAndRedraw(ctx) == [ctx EXCEPT !.scr = redraw(@), !.raised = ""]

resize_callback_event(scr, g, mode) ==
    IF g.fbsize = 0
    THEN Ctx(scr)
    ELSE CatchAndRedraw(
             resize_event(
                 [scr EXCEPT !.m_fbsize = g.fbsize,
                             !.m_cm_texture = resize(@, g.fbsize),
                             !.m_cm_depth_texture = resize(@, g.fbsize),
                             !.m_cm_render_pass = resize(@, g.fbsize)],
                 g, mode))

framebuffer_size_callback(scr, g, mode) ==
    IF scr.status # "ok" THEN Ctx(scr)
    ELSE IF ~scr.m_process_events THEN Ctx(scr)
    ELSE resize_callback_event(scr, g, mode)

(***************************************************************************)
(* The main loop.  A pass over the registry threads the Screens through    *)
(* the windows in registry order and logs, per window, the GPU operations  *)
(* the pass issues.                                                        *)
(***************************************************************************)
Logged(st) ==
    [s \in Screens |-> IF st.log[s] # <<>> THEN st.log[s] ELSE frames[s]]

\* One turn of `for (auto kv : __nanogui_screens)`; an exception in flight
\* skips the turns that remain.
Drawn(i, st, ctx) ==
    [st EXCEPT !.screens[i] = ctx.scr,
               !.log[i] = @ \o ctx.ops,
               !.num_screens = @ + 1,
               !.raised = ctx.raised]

DrawScreen(i, st) ==
    IF st.raised # "" THEN st
    ELSE IF st.screens[i].status # "ok" THEN st
    ELSE IF ~st.screens[i].m_visible THEN st
    ELSE IF glfw[i].should_close
    THEN [st EXCEPT !.screens[i] = set_visible(@, FALSE)]
    ELSE Drawn(i, st, draw_all(st.screens[i], glfw[i], st.mode))

DrawScreens(st) ==
    LET turn[i \in 0..NumScreens] ==
            IF i = 0 THEN st ELSE DrawScreen(i, turn[i - 1])
    IN  turn[NumScreens]

\* The size callback of window i, if one is pending.
Handled(i, st, ctx) ==
    [st EXCEPT !.screens[i] = ctx.scr, !.log[i] = @ \o ctx.ops]

DeliverEvents(i, st) ==
    IF ~glfw[i].pending THEN st
    ELSE Handled(i, st,
             framebuffer_size_callback(st.screens[i], glfw[i], st.mode))

glfwPollEvents(st) ==
    LET turn[i \in 0..NumScreens] ==
            IF i = 0 THEN st ELSE DeliverEvents(i, turn[i - 1])
    IN  turn[NumScreens]

Delivered == [s \in Screens |-> [glfw[s] EXCEPT !.pending = FALSE]]

LoopState ==
    [screens |-> screens, log |-> [s \in Screens |-> <<>>],
     mode |-> run_state.mode, num_screens |-> 0, raised |-> ""]

IdleCall ==
    [fn |-> "idle", chroma |-> <<>>, Y |-> F(0), code |-> 0,
     result |-> [ok |-> TRUE, val |-> "pending"], divisors |-> <<>>]

Alive == run_state.pc # "crashed"

\* new Screen(...): the window is created hidden, one pixel wide, on the
\* display the windowing layer gives it, then the constructor runs.  The
\* application creates its windows in index order.
CreateScreen(s) ==
    /\ run_state.pc = "idle"
    /\ screens[s].status = "none"
    /\ \A t \in Screens : t < s => screens[t].status # "none"
    /\ \E profile \in DisplayProfiles, ub \in UBOutcomes :
          LET g   == [NoWindow EXCEPT !.fbsize = 1, !.profile = profile]
              scr == Screen_ctor(g, ub)
          IN  /\ glfw' = [glfw EXCEPT ![s] = g]
              /\ screens' = [screens EXCEPT ![s] = scr]
              /\ run_state' = IF scr.status = "crashed"
                              THEN [run_state EXCEPT !.pc = "crashed"]
                              ELSE run_state
    /\ UNCHANGED <<call, pass, timer, threads, platform, environ, frames, events_left>>

\* An event other than showing a window draws on the budget of the run.
Spend(visible) ==
    IF visible
    THEN UNCHANGED events_left
    ELSE events_left > 0 /\ events_left' = events_left - 1

SetVisible(s) ==
    /\ Alive
    /\ screens[s].status = "ok"
    /\ \E visible \in BOOLEAN :
          /\ screens[s].m_visible # visible
          /\ screens' = [screens EXCEPT ![s] = set_visible(@, visible)]
          /\ Spend(visible)
    /\ UNCHANGED <<call, pass, timer, threads, platform, environ, glfw, frames, run_state>>

Redraw(s) ==
    /\ Alive
    /\ screens[s].status = "ok"
    /\ screens' = [screens EXCEPT ![s] = redraw(@)]
    /\ Spend(FALSE)
    /\ UNCHANGED <<call, pass, timer, threads, platform, environ, glfw, frames, run_state>>

\* The window system changes the window's framebuffer size; the size
\* callback is delivered by the next event poll.
WindowResized(s) ==
    /\ Alive
    /\ screens[s].status = "ok"
    /\ \E size \in Sizes \ {glfw[s].fbsize} :
          glfw' = [glfw EXCEPT ![s].fbsize = size, ![s].pending = TRUE]
    /\ Spend(FALSE)
    /\ UNCHANGED <<call, pass, timer, threads, platform, environ, screens, frames, run_state>>

WindowCloseRequested(s) ==
    /\ Alive
    /\ screens[s].status = "ok"
    /\ ~glfw[s].should_close
    /\ glfw' = [glfw EXCEPT ![s].should_close = TRUE]
    /\ Spend(FALSE)
    /\ UNCHANGED <<call, pass, timer, threads, platform, environ, screens, frames, run_state>>

\* run() that enters the loop whatever the current mode is.
run_Restarts(current_run_mode, run_mode) == Ok(run_mode)

\* The head of run(): the mode the loop is entered with, or the error.
run(current_run_mode, run_mode) ==
    IF current_run_mode # "Stopped"
    THEN Throw("runtime_error", "Main loop is already active!")
    ELSE Ok(run_mode)

\* run(run_mode), called by the thread that will run the loop, or called
\* while the mode is not Stopped, where it raises to its caller.
Run ==
    /\ \E mode \in RunModes :
          IF run(run_state.mode, mode).ok
          THEN /\ run_state.pc = "idle"
               /\ run_state' = [mode |-> run(run_state.mode, mode).val, pc |-> "loop",
                                caught |-> "", refused |-> FALSE]
          ELSE run_state' = [run_state EXCEPT !.refused = TRUE]
    /\ UNCHANGED <<call, pass, timer, threads, platform, environ, glfw, screens, frames, events_left>>

Polled(p) ==
    /\ screens' = p.screens
    /\ frames' = Logged(p)
    /\ glfw' = Delivered

\* What follows the for loop of mainloop_iteration, `d` being its outcome.
AfterDrawing(d) ==
    IF d.raised # ""
    THEN /\ screens' = d.screens
         /\ frames' = Logged(d)
         /\ \E m \in {run_state.mode, "Stopped"} :
               run_state' = [run_state EXCEPT !.mode = m, !.pc = "idle",
                                              !.caught = d.raised]
         /\ UNCHANGED glfw
    ELSE IF d.num_screens = 0
    THEN /\ screens' = d.screens
         /\ frames' = Logged(d)
         /\ run_state' = [run_state EXCEPT !.mode = "Stopped"]
         /\ UNCHANGED glfw
    ELSE /\ Polled(glfwPollEvents(d))
         /\ UNCHANGED run_state

\* One pass of `while (current_run_mode != Stopped) mainloop_iteration();`.
\* An exception leaves the loop through run()'s catch, which calls leave();
\* leave() is not among the sources, so the mode it leaves behind is open.
MainloopIteration ==
    /\ run_state.pc = "loop"
    /\ run_state.mode # "Stopped"
    /\ AfterDrawing(DrawScreens(LoopState))
    /\ UNCHANGED <<call, pass, timer, threads, platform, environ, events_left>>

\* The loop condition fails: events are processed once more and run() returns.
RunReturn ==
    /\ run_state.pc = "loop"
    /\ run_state.mode = "Stopped"
    /\ Polled(glfwPollEvents(LoopState))
    /\ run_state' = [run_state EXCEPT !.pc = "idle"]
    /\ UNCHANGED <<call, pass, timer, threads, platform, environ, events_left>>

NextScreen ==
    \/ \E s \in Screens : CreateScreen(s)
    \/ \E s \in Screens : SetVisible(s)
    \/ \E s \in Screens : Redraw(s)
    \/ \E s \in Screens : WindowResized(s)
    \/ \E s \in Screens : WindowCloseRequested(s)
    \/ Run
    \/ MainloopIteration
    \/ RunReturn

InitWindows ==
    /\ glfw = [s \in Screens |-> NoWindow]
    /\ screens = [s \in Screens |-> NoScreen]
    /\ frames = [s \in Screens |-> <<>>]
    /\ run_state = [mode |-> "Stopped", pc |-> "idle", caught |-> "", refused |-> FALSE]
    /\ events_left = MaxEvents

InitScreen ==
    /\ call = IdleCall
    /\ platform \in Platforms
    /\ environ \in EnvValues
    /\ InitWindows
    /\ pass = NoPass
    /\ timer = NoTimer
    /\ threads = NoThreads

SpecScreen == InitScreen /\ [][NextScreen]_vars


(***************************************************************************)
(* The chroma engine applied to bounded inputs: chromaticities on a grid   *)
(* of GridDen-ths inside the chromaticity triangle, a luminance of 0, 1 or *)
(* the largest float, and the primaries codes up to MaxCode (and 99).      *)
(***************************************************************************)
GridDen == 3

MaxCode == 13

Points ==
    {Vector2f(FNorm(i, GridDen), FNorm(j, GridDen)) :
        i \in 0..GridDen, j \in 0..GridDen}

GridPoints == {p \in Points : FLe(FAdd(p.x, p.y), F(1))}

YValues == {F(0), F(1), FltMax}

Codes == ((0 - MaxCode)..MaxCode) \cup {99}

NoChroma == <<>>

Pending == [ok |-> TRUE, val |-> "pending"]

MatrixInputs ==
    {[fn |-> "input", chroma |-> <<r, g, b, w>>, Y |-> y, code |-> 0,
      result |-> Pending, divisors |-> <<>>] :
        r \in GridPoints, g \in GridPoints, b \in GridPoints, w \in GridPoints,
        y \in YValues}

CodeInputs ==
    {[fn |-> "input", chroma |-> NoChroma, Y |-> F(0), code |-> c,
      result |-> Pending, divisors |-> <<>>] : c \in Codes}

CallRgbToXyz ==
    /\ call.fn = "input"
    /\ call.chroma # NoChroma
    /\ call' = [call EXCEPT !.fn = "rgb_to_xyz",
                            !.result = rgb_to_xyz(call.chroma, call.Y),
                            !.divisors = rgb_to_xyz_divisors(call.chroma, call.Y)]
    /\ UNCHANGED <<screen_vars, pass, timer, threads>>

CallXyzToRgb ==
    /\ call.fn = "input"
    /\ call.chroma # NoChroma
    /\ call' = [call EXCEPT !.fn = "xyz_to_rgb",
                            !.result = xyz_to_rgb(call.chroma, call.Y)]
    /\ UNCHANGED <<screen_vars, pass, timer, threads>>

CallChromaFromWpPrimaries ==
    /\ call.fn = "input"
    /\ call.chroma = NoChroma
    /\ call' = [call EXCEPT !.fn = "chroma_from_wp_primaries",
                            !.result = chroma_from_wp_primaries(call.code)]
    /\ UNCHANGED <<screen_vars, pass, timer, threads>>

NextChroma == CallRgbToXyz \/ CallXyzToRgb \/ CallChromaFromWpPrimaries

InitChroma ==
    /\ call \in MatrixInputs \cup CodeInputs
    /\ platform = [win32 |-> FALSE, shader_compiles |-> TRUE, depth_stencil |-> FALSE]
    /\ environ = Unset
    /\ InitWindows
    /\ pass = NoPass
    /\ timer = NoTimer
    /\ threads = NoThreads

SpecChroma == InitChroma /\ [][NextChroma]_vars

(***************************************************************************)
(* The colour pass: it is built once, by ColorPass's constructor or by     *)
(* Screen, configured from what the window reports, and then shades        *)
(* fragments.  Source pixels are extended-sRGB colours.                    *)
(***************************************************************************)
Pixels ==
    {<<Q(1, 1), Q(1, 1), Q(1, 1)>>,
     <<Q(0, 1), Q(0, 1), Q(0, 1)>>,
     <<Q(-1, 1), Q(0, 1), Q(1, 1)>>,
     <<Q(323, 12800), Q(1, 1), Q(-1, 1)>>,
     <<Q(1, 1), Q(323, 12800), Q(0, 1)>>}

Overrides == {Q(0, 1), Q(100, 1)}

\* The cells of the dither matrix holding 0, 32 and 63: the most negative
\* noise, none, and the most positive.
Texels == {1, 2, 57}

Range(v) == {v[i] : i \in DOMAIN v}

\* fromLinearRGB maps x to a fraction, and every pow it evaluates is
\* defined: the base is not negative.
InPowDomain(x, tf) ==
    \/ tf = CM_TRANSFER_FUNCTION_EXT_LINEAR
    \/ tf = CM_TRANSFER_FUNCTION_SRGB
          /\ FLe(Q(0, 1), x) /\ (FLe(x, SRGB_CUT) \/ x = Q(1, 1))
    \/ tf = CM_TRANSFER_FUNCTION_EXT_SRGB
          /\ (FLe(FAbs(x), SRGB_CUT) \/ FAbs(x) = Q(1, 1))

not_pass_vars ==
    <<call, platform, environ, glfw, screens, frames, run_state, events_left, timer,
      threads>>

\* A pass is built by a caller with no chroma call of its own in progress.
NewColorPass ==
    /\ call.fn = "idle"
    /\ pass.status = "none"
    /\ \E color_texture \in ComponentFormats, destination \in Framebuffers :
          pass' = [ColorPass_ctor(color_texture, destination.bits)
                       EXCEPT !.destination = destination]
    /\ UNCHANGED not_pass_vars

NewScreen ==
    /\ call.fn = "idle"
    /\ pass.status = "none"
    /\ \E float_buffer \in BOOLEAN, destination \in Framebuffers :
          /\ destination.float => float_buffer
          /\ pass' = [Screen_color_pass(float_buffer, destination.bits)
                          EXCEPT !.destination = destination]
    /\ UNCHANGED not_pass_vars

\* Once per frame before the quad; one frame per pass, and a frame whose
\* configure raised draws no quad.
Configure ==
    /\ pass.status = "ok"
    /\ ~pass.configured
    /\ pass.raised = ""
    /\ \E window \in PassWindows, override \in Overrides :
          pass' = configure(pass, window, override)
    /\ UNCHANGED not_pass_vars

\* One fragment of the quad.
DrawQuad ==
    /\ pass.configured
    /\ pass.fragment = NoFragment
    /\ \E color \in Pixels, texel \in Texels :
          /\ \A x \in Range(encoder_input(pass.uniforms,
                                            clamp_nits(pass.uniforms,
                                                       linear_nits(pass.uniforms, color)))) :
                InPowDomain(x, pass.uniforms.out_transfer_function)
          /\ pass' = [pass EXCEPT
                         !.texel = texel,
                         !.fragment = fragment_main(pass.uniforms, pass.m_dither_matrix,
                                                    color, texel)]
    /\ UNCHANGED not_pass_vars

to_rec709(c) == IF c.ok THEN chroma_to_rec709_matrix(c.val.chroma) ELSE c

\* chroma_to_rec709_matrix(chroma_from_wp_primaries(code)), as a caller of
\* the chroma engine composes them.
CallChromaToRec709Matrix ==
    /\ call.fn = "idle"
    /\ pass.status = "none"
    /\ \E code \in {1, 11} :
          call' = [call EXCEPT
                      !.fn = "chroma_to_rec709_matrix",
                      !.code = code,
                      !.result = to_rec709(chroma_from_wp_primaries(code))]
    /\ UNCHANGED <<screen_vars, pass, timer, threads>>

NextPass ==
    \/ NewColorPass
    \/ NewScreen
    \/ Configure
    \/ DrawQuad
    \/ CallChromaToRec709Matrix

InitPass ==
    /\ call = IdleCall
    /\ platform = [win32 |-> FALSE, shader_compiles |-> TRUE, depth_stencil |-> FALSE]
    /\ environ = Unset
    /\ InitWindows
    /\ pass = NoPass
    /\ timer = NoTimer
    /\ threads = NoThreads

SpecPass == InitPass /\ [][NextPass]_vars

(***************************************************************************)
(* RestartableTimer: the owner's calls, the worker thread and the clock.   *)
(* A restart is taken while the clock can still reach its deadline.        *)
(***************************************************************************)
not_timer_vars ==
    <<call, platform, environ, glfw, screens, frames, run_state, events_left, pass,
      threads>>

Restart ==
    /\ timer.owner = "alive"
    /\ timer.now + Delay <= MaxTime
    /\ timer' = restart(timer)
    /\ UNCHANGED not_timer_vars

Clear ==
    /\ timer.owner = "alive"
    /\ timer' = clear(timer)
    /\ UNCHANGED not_timer_vars

DestructorCalled ==
    /\ timer.owner = "alive"
    /\ timer' = Destructor(timer)
    /\ UNCHANGED not_timer_vars

\* m_worker.join() returns.
JoinReturns ==
    /\ timer.owner = "joining"
    /\ timer.worker = "done"
    /\ timer' = [timer EXCEPT !.owner = "destroyed"]
    /\ UNCHANGED not_timer_vars

\* The worker takes m_mutex for the first time.
WorkerStarts ==
    /\ timer.worker = "start"
    /\ timer' = Park(timer)
    /\ UNCHANGED not_timer_vars

\* m_cv.wait returns after a notification (lines 44-49).
WaitReturns ==
    /\ timer.worker = "idle"
    /\ timer.signaled
    /\ timer' = Park(timer)
    /\ UNCHANGED not_timer_vars

\* m_cv.wait_until returns after a notification or at its deadline.
WaitUntilReturns ==
    /\ timer.worker = "counting"
    /\ timer.signaled \/ timer.now >= timer.wait_deadline
    /\ timer' = AfterWaitUntil(timer)
    /\ UNCHANGED not_timer_vars

\* m_cv.wait_until returns for no reason.
SpuriousWakeup ==
    /\ timer.worker = "counting"
    /\ ~(timer.signaled \/ timer.now >= timer.wait_deadline)
    /\ timer' = AfterWaitUntil(timer)
    /\ UNCHANGED not_timer_vars

CallbackStarts ==
    /\ timer.worker = "expired"
    /\ timer' = EnterCallback(timer)
    /\ UNCHANGED not_timer_vars

\* m_callback returns and the worker takes m_mutex again (lines 61-62).
CallbackReturns ==
    /\ timer.worker = "callback"
    /\ timer' = Park(timer)
    /\ UNCHANGED not_timer_vars

Tick ==
    /\ timer.now < MaxTime
    /\ timer' = [timer EXCEPT !.now = @ + 1]
    /\ UNCHANGED not_timer_vars

NextTimer ==
    \/ Restart
    \/ Clear
    \/ DestructorCalled
    \/ JoinReturns
    \/ WorkerStarts
    \/ WaitReturns
    \/ WaitUntilReturns
    \/ SpuriousWakeup
    \/ CallbackStarts
    \/ CallbackReturns
    \/ Tick

InitTimer ==
    /\ call = IdleCall
    /\ platform = [win32 |-> FALSE, shader_compiles |-> TRUE, depth_stencil |-> FALSE]
    /\ environ = Unset
    /\ InitWindows
    /\ pass = NoPass
    /\ timer = NoTimer
    /\ threads = NoThreads

SpecTimer == InitTimer /\ [][NextTimer]_vars

\* The scheduler runs the worker, waits that can return do return,
\* m_callback terminates and the clock advances.
SpecTimerFair ==
    /\ SpecTimer
    /\ WF_vars(WorkerStarts)
    /\ WF_vars(WaitReturns)
    /\ WF_vars(WaitUntilReturns)
    /\ WF_vars(CallbackStarts)
    /\ WF_vars(CallbackReturns)
    /\ WF_vars(JoinReturns)
    /\ WF_vars(Tick)


(***************************************************************************)
(* Claims about the chroma engine, under SpecChroma.                       *)
(***************************************************************************)
UnknownPrimaries(r) ==
    ~r.ok /\ r.err = "invalid_argument" /\ r.what = "Unknown wp color primaries"

DegenerateInput(r) ==
    /\ ~r.ok
    /\ r.err = "invalid_argument"
    /\ r.what \in {"Bad chromaticities: white.y cannot be zero",
                   "Bad chromaticities: RGBtoXYZ matrix is degenerate"}

\* C1: chroma_from_wp_primaries(0), the Unspecified code, returns the Rec.709
\* primary set and raises nothing.
C1_UnspecifiedGivesRec709 ==
    (call.fn = "chroma_from_wp_primaries" /\ call.code = 0)
        => (call.result.ok /\ call.result.val.chroma = rec709_chroma)

\* C2: every code other than 0 and 1..10 makes chroma_from_wp_primaries fail
\* with the unknown-primaries error; no primary set is returned.
C2_UnknownCodesThrow ==
    (call.fn = "chroma_from_wp_primaries" /\ call.code \notin 0..10)
        => UnknownPrimaries(call.result)

C2_Witness ==
    /\ call.fn = "chroma_from_wp_primaries"
    /\ call.code = 99
    /\ UnknownPrimaries(call.result)

\* C3: rgb_to_xyz with white.y = 0 raises the white.y error for every finite
\* white.x and Y, before any division by white.y.
C3_ZeroWhiteYThrows ==
    (call.fn = "rgb_to_xyz" /\ call.chroma[4].y = F(0))
        => /\ DegenerateInput(call.result)
           /\ call.result.what = "Bad chromaticities: white.y cannot be zero"
           /\ call.divisors = <<>>

C3_Witness ==
    /\ call.fn = "rgb_to_xyz"
    /\ call.chroma[4] = Vector2f(F(0), F(0))
    /\ call.Y = F(0)
    /\ DegenerateInput(call.result)
    /\ call.divisors = <<>>

Collinear(chroma) == Denominator(chroma[1], chroma[2], chroma[3]) = F(0)

\* C4: rgb_to_xyz raises the degenerate-input error for every collinear
\* primary set (d = 0), whatever the white point and the numerators, and
\* never divides by d = 0.
C4_CollinearThrows ==
    (call.fn = "rgb_to_xyz" /\ Collinear(call.chroma))
        => /\ DegenerateInput(call.result)
           /\ Len(call.divisors) <= 2

\* The forward matrix of (chroma, Y) is singular: rgb_to_xyz rejects the
\* input, the primaries admit no matrix, or the matrix returned has
\* determinant 0 (a zero scale factor).
SingularForward(chroma, Y) ==
    LET f == rgb_to_xyz(chroma, Y)
    IN  \/ ~f.ok
        \/ Collinear(chroma)
        \/ AllFinite(f.val) /\ IsSingular(f.val)

\* C5: xyz_to_rgb fails with the degenerate-input error whenever the forward
\* matrix is singular, a zero scale factor with d # 0 included.
C5_SingularForwardFails ==
    (call.fn = "xyz_to_rgb" /\ SingularForward(call.chroma, call.Y))
        => DegenerateInput(call.result)


(***************************************************************************)
(* Claims about windows, frames and the main loop, under SpecScreen.       *)
(***************************************************************************)
\* The SDR white level draw_teardown hands to the colour pass.
display_sdr_white_level(scr, g) ==
    IF scr.m_display_sdr_white_level_override.has
    THEN scr.m_display_sdr_white_level_override.value
    ELSE g.profile.white

ColorPassOps == {"pass_begin", "pass_end", "configure", "configure_raised", "quad"}

UsesColorPass(log) == \E i \in 1..Len(log) : log[i].op \in ColorPassOps

ShaderBuildFailed(s) ==
    /\ screens[s].status \in {"ok", "crashed"}
    /\ screens[s].m_wants_color_management
    /\ ~platform.shader_compiles

\* C6: when the colour-management shader fails to build at window creation,
\* construction still completes (nothing fails after the logged build error)
\* and no later frame of the window uses the colour pass.
C6_ShaderFailureFallsBack ==
    \A s \in Screens :
        ShaderBuildFailed(s)
            => /\ screens[s].status = "ok"
               /\ Alive
               /\ ~UsesColorPass(frames[s])

ConfigureErrors ==
    {"Unknown wp color primaries",
     "Bad chromaticities: white.y cannot be zero",
     "Bad chromaticities: RGBtoXYZ matrix is degenerate"}

\* C7: a colour-pass configuration error of one window never ends the main
\* loop: run() is never left through an exception raised by a frame's
\* configure step, so the other windows keep being drawn.
C7_ConfigureErrorKeepsLoopRunning == run_state.caught \notin ConfigureErrors

\* C8: with NANOGUI_CM_SDR_WHITE_LEVEL absent or set to the empty string,
\* window creation succeeds and the colour pass uses the queried (live or
\* cached) SDR white level of the window's display.
C8_EmptyOrAbsentKeepsQuery ==
    (~environ.set \/ environ.value = <<>>)
        => \A s \in Screens :
              /\ screens[s].status # "threw"
              /\ screens[s].status = "ok"
                    => display_sdr_white_level(screens[s], glfw[s])
                           = glfw[s].profile.white

\* The operations of a log up to and including its first swap, and the rest.
RECURSIVE FirstSwap(_, _)
FirstSwap(log, i) ==
    IF i > Len(log) THEN 0
    ELSE IF log[i].op = "swap" THEN i
    ELSE FirstSwap(log, i + 1)

RECURSIVE PresentedFrames(_)
PresentedFrames(log) ==
    LET k == FirstSwap(log, 1)
    IN  IF k = 0 THEN {}
        ELSE {SubSeq(log, 1, k)} \cup PresentedFrames(SubSeq(log, k + 1, Len(log)))

Positions(frame, name) == {i \in 1..Len(frame) : frame[i].op = name}

Once(frame, name) == Cardinality(Positions(frame, name)) = 1

Pos(frame, name) == CHOOSE i \in Positions(frame, name) : TRUE

InOrder(frame) ==
    /\ \A name \in {"pass_begin", "contents", "widgets", "pass_end",
                    "configure", "quad", "swap"} : Once(frame, name)
    /\ Pos(frame, "pass_begin") < Pos(frame, "contents")
    /\ Pos(frame, "contents") < Pos(frame, "widgets")
    /\ Pos(frame, "widgets") < Pos(frame, "pass_end")
    /\ Pos(frame, "pass_end") < Pos(frame, "configure")
    /\ Pos(frame, "configure") < Pos(frame, "quad")
    /\ Pos(frame, "quad") < Pos(frame, "swap")

\* C9: in every presented frame that uses the colour pass, content and widget
\* drawing happen inside the render pass, then the pass is ended, then the
\* uniforms are configured, then the quad is drawn, then the buffers are
\* swapped, each exactly once; a frame without the colour pass draws no quad.
C9_FrameOrder ==
    \A s \in Screens :
        \A frame \in PresentedFrames(frames[s]) :
            IF UsesColorPass(frame)
            THEN InOrder(frame)
            ELSE Positions(frame, "quad") = {}

C9_Witness ==
    \E s \in Screens :
        \E frame \in PresentedFrames(frames[s]) :
            /\ UsesColorPass(frame)
            /\ Once(frame, "quad")
            /\ Cardinality(PresentedFrames(frames[s])) > 1

SizedFor(op) ==
    /\ op.color.size = op.fbsize
    /\ op.depth.present => op.depth.size = op.fbsize
    /\ op.pass.size = op.fbsize

\* C10: at every colour-pass configure and quad draw the colour texture, the
\* depth/stencil texture and the render pass have the framebuffer size
\* m_fbsize of that frame.
C10_ResourcesMatchFramebuffer ==
    \A s \in Screens :
        \A i \in 1..Len(frames[s]) :
            frames[s][i].op \in {"configure", "quad"} => SizedFor(frames[s][i])

(***************************************************************************)
(* The colour pass, per pixel.                                             *)
(***************************************************************************)
InUnitInterval(x) == FLe(Q(0, 1), x) /\ FLe(x, Q(1, 1))

HasFragment == pass.fragment # NoFragment

\* C11: clip_to_unit_interval is true exactly when the buffer the quad is
\* written to is not floating point; a fixed-point destination receives
\* channels in [0,1] only, a floating-point destination receives the
\* dithered value unclamped.
C11_ClipIffDestinationFixed ==
    pass.configured =>
        /\ pass.uniforms.clip_to_unit_interval = ~pass.destination.float
        /\ HasFragment =>
              IF pass.destination.float
              THEN pass.fragment.color =
                       [i \in 1..3 |-> QAdd(pass.fragment.encoded[i],
                                            pass.m_dither_matrix[pass.texel])]
              ELSE \A x \in Range(pass.fragment.color) : InUnitInterval(x)

\* C12: a non-zero minimum luminance is a lower bound of every channel of
\* the nits value handed to the output transfer function, a non-zero
\* maximum luminance an upper bound, and with both bounds 0 the nits value
\* is the unclamped one.
C12_LuminanceBoundsClamp ==
    HasFragment =>
        \A i \in 1..3 :
            /\ pass.uniforms.min_luminance # Q(0, 1) =>
                   FGe(pass.fragment.nits[i], pass.uniforms.min_luminance)
            /\ pass.uniforms.max_luminance # Q(0, 1) =>
                   FLe(pass.fragment.nits[i], pass.uniforms.max_luminance)
            /\ (pass.uniforms.min_luminance = Q(0, 1)
                    /\ pass.uniforms.max_luminance = Q(0, 1)) =>
                   pass.fragment.nits[i] = pass.fragment.unclamped[i]

(***************************************************************************)
(* RestartableTimer.                                                       *)
(***************************************************************************)
\* C13: m_callback is never entered earlier than Delay after the most
\* recent restart().
C13_NoEarlyCallback == ~timer.started_early

\* C14: m_callback is never entered after clear() has returned, unless
\* restart() was called after that clear().
C14_ClearCancels == ~timer.started_after_clear

\* C15: once the destructor is called it returns, whatever the worker was
\* doing; the worker does not find a deadline reached after the destructor
\* has taken m_mutex, and m_callback is not entered after the destructor
\* has returned.
C15_DestructorJoins ==
    /\ [](~timer.fired_at_exit /\ ~timer.started_after_join)
    /\ (timer.owner = "joining") ~> (timer.owner = "destroyed")

C15_Witness ==
    /\ timer.owner = "destroyed"
    /\ timer.pending_at_exit

RestartStands ==
    /\ timer.owner = "alive"
    /\ timer.restarted_at >= 0
    /\ ~timer.cleared

Identity ==
    <<<<F(1), F(0), F(0)>>, <<F(0), F(1), F(0)>>, <<F(0), F(0), F(1)>>>>

SdrWhiteOnRec709 ==
    /\ HasFragment
    /\ pass.fragment.source = <<Q(1, 1), Q(1, 1), Q(1, 1)>>
    /\ pass.uniforms.display_color_matrix = Identity
    /\ pass.uniforms.out_transfer_function = CM_TRANSFER_FUNCTION_SRGB
    /\ pass.uniforms.display_sdr_white_level = Q(80, 1)
    /\ pass.uniforms.min_luminance = Q(0, 1)
    /\ pass.uniforms.max_luminance = Q(0, 1)

\* C17: SDR white (1,1,1) on a Rec.709 sRGB display with an SDR white level
\* of 80 nits and no luminance bounds is (1,1,1) before dithering; the pixel
\* written differs from it by at most half the dither scale and lies in
\* [0,1] when the destination is not floating point.
C17_SdrWhiteRoundTrip ==
    SdrWhiteOnRec709 =>
        /\ pass.fragment.encoded = <<Q(1, 1), Q(1, 1), Q(1, 1)>>
        /\ \A x \in Range(pass.fragment.color) :
              /\ FLe(FAbs(QAdd(x, Q(-1, 1))), QMul(pass.dither_scale, Q(1, 2)))
              /\ ~pass.destination.float => InUnitInterval(x)

C17_Witness ==
    /\ SdrWhiteOnRec709
    /\ pass.dither_scale = Q(1, 256)
    /\ pass.texel = 1

Steps(s) == {QAdd(QMul(s, Q(-1, 2)), QMul(s, Q(k, 64))) : k \in 0..63}

\* C19: the dither matrix has 64 entries, all in [-s/2, s/2] for the scale
\* s it was made with; for s = 0 they are all 0, otherwise they are the 64
\* distinct values -s/2 + k*s/64, k = 0..63, each in one cell.
C19_DitherMatrix ==
    pass.status = "ok" =>
        LET s == pass.dither_scale
            m == pass.m_dither_matrix
        IN  /\ DOMAIN m = 1..64
            /\ \A i \in DOMAIN m :
                  /\ FLe(QMul(s, Q(-1, 2)), m[i])
                  /\ FLe(m[i], QMul(s, Q(1, 2)))
            /\ s = Q(0, 1) => \A i \in DOMAIN m : m[i] = Q(0, 1)
            /\ s # Q(0, 1) =>
                  /\ Range(m) = Steps(s)
                  /\ Cardinality(Range(m)) = 64

C19_Witness ==
    /\ pass.status = "ok"
    /\ pass.dither_scale = Q(1, 1024)
    /\ Cardinality(Range(pass.m_dither_matrix)) = 64

\* C20: the dither scale of a pass is 0 when the framebuffer it writes to
\* is floating point and 1/2^N when it is fixed point with N bits.
C20_DitherScaleOfDestination ==
    pass.status = "ok" =>
        pass.dither_scale =
            IF pass.destination.float THEN Q(0, 1)
            ELSE Q(1, 2 ^ pass.destination.bits)

(***************************************************************************)
(* The primaries catalogue, the transfer functions.                        *)
(***************************************************************************)
\* A chromaticity point given in millionths.
XY(x, y) == Vector2f(Dec(x, 1000000), Dec(y, 1000000))

D65 == XY(312710, 329020)

IlluminantC == XY(310000, 316000)

\* The H.273 name and the red, green, blue and white points of each code.
TabulatedPrimaries ==
    [code \in 1..10 |->
        CASE code = 1 -> <<"BT709", XY(640000, 330000), XY(300000, 600000),
                           XY(150000, 60000), D65>>
          [] code = 2 -> <<"BT470M", XY(670000, 330000), XY(210000, 710000),
                           XY(140000, 80000), IlluminantC>>
          [] code = 3 -> <<"BT470BG", XY(640000, 330000), XY(290000, 600000),
                           XY(150000, 60000), D65>>
          [] code = 4 -> <<"SMPTE170M", XY(630000, 340000), XY(310000, 595000),
                           XY(155000, 70000), D65>>
          [] code = 5 -> <<"Film", XY(681000, 319000), XY(243000, 692000),
                           XY(145000, 49000), IlluminantC>>
          [] code = 6 -> <<"BT2020", XY(708000, 292000), XY(170000, 797000),
                           XY(131000, 46000), D65>>
          [] code = 7 -> <<"SMPTE428", XY(1000000, 0), XY(0, 1000000),
                           XY(0, 0), XY(333333, 333333)>>
          [] code = 8 -> <<"SMPTE431", XY(680000, 320000), XY(265000, 690000),
                           XY(150000, 60000), XY(314000, 351000)>>
          [] code = 9 -> <<"SMPTE432", XY(680000, 320000), XY(265000, 690000),
                           XY(150000, 60000), D65>>
          [] code = 10 -> <<"AdobeRGB", XY(640000, 330000), XY(210000, 710000),
                            XY(150000, 60000), D65>>]

\* C21: chroma_from_wp_primaries returns, for every code of 1..10, the four
\* tabulated chromaticity points of that code and raises nothing; codes
\* 1..9 go through the H.273 name of the table, code 10 is Adobe RGB.
C21_CodeTable ==
    (call.fn = "chroma_from_wp_primaries" /\ call.code \in 1..10) =>
        /\ call.result.ok
        /\ call.result.val.chroma = SubSeq(TabulatedPrimaries[call.code], 2, 5)
        /\ call.code # 10 =>
               from_wp_primaries(call.code) = Ok(TabulatedPrimaries[call.code][1])
        /\ call.code = 4 =>
               ituth273_chroma("SMPTE240M") = ituth273_chroma("SMPTE170M")

C21_Witness ==
    /\ call.fn = "chroma_from_wp_primaries"
    /\ call.code = 10
    /\ call.result.ok
    /\ call.result.val.chroma = adobe_chroma


(***************************************************************************)
(* The transfer functions on their own: fromLinearRGB, toLinearRGB and     *)
(* transferWhiteLevel applied to colours and codes, and toLinearRGB        *)
(* applied to what fromLinearRGB returned.                                 *)
(***************************************************************************)
MaxTransferCode == 15

\* Every code of the enumeration, codes next to it, and one far outside.
TransferCodes == (-1..MaxTransferCode) \cup {99}

\* The codes for which fromLinearRGB and toLinearRGB are modelled.
CurveCodes ==
    {tf \in TransferCodes :
        \/ tf \notin 1..13
        \/ tf \in {CM_TRANSFER_FUNCTION_BT1886, CM_TRANSFER_FUNCTION_ST240,
                   CM_TRANSFER_FUNCTION_EXT_LINEAR, CM_TRANSFER_FUNCTION_XVYCC,
                   CM_TRANSFER_FUNCTION_SRGB, CM_TRANSFER_FUNCTION_EXT_SRGB}}

\* The codes whose functions mirror negative inputs instead of raising
\* them to a power.
SignedCodes ==
    {CM_TRANSFER_FUNCTION_EXT_LINEAR, CM_TRANSFER_FUNCTION_XVYCC,
     CM_TRANSFER_FUNCTION_EXT_SRGB}

\* sRGB, BT.1886 and ST240, the final else included.
LinPowCodes ==
    {tf \in CurveCodes : tf \notin SignedCodes}

LinPowCut(tf) ==
    CASE tf = CM_TRANSFER_FUNCTION_BT1886 -> BT1886_CUT
      [] tf = CM_TRANSFER_FUNCTION_ST240 -> ST240_CUT
      [] OTHER -> SRGB_CUT

LinPowScale(tf) ==
    CASE tf = CM_TRANSFER_FUNCTION_BT1886 -> BT1886_SCALE
      [] tf = CM_TRANSFER_FUNCTION_ST240 -> ST240_SCALE
      [] OTHER -> SRGB_SCALE

\* Channel values: zero, the linear branch, the sRGB cut, two values just
\* above it, mid grey, one, and two negative values.
ChannelValues ==
    {Q(0, 1), Q(1, 1024), SRGB_CUT, Q(86, 27469), Q(32, 10221),
     Q(1, 2), Q(1, 1), Q(-1, 2), Q(-1, 1024)}

Colours == {<<r, g, b>> : r \in {Q(0, 1), Q(1, 2), Q(-1, 2)},
                          g \in ChannelValues, b \in {Q(1, 1024), Q(1, 1)}}

\* Every pow the function evaluates has a base that is not negative.
PowDefined(color, tf) ==
    tf \in SignedCodes \/ \A i \in 1..3 : color[i].n >= 0

NoTransferCall ==
    [fn |-> "input", tf |-> 0, color |-> <<>>, code |-> <<>>, result |-> <<>>]

\* A code on its own, for transferWhiteLevel; a code and a colour.
TransferInputs ==
    {[NoTransferCall EXCEPT !.tf = tf] : tf \in TransferCodes}
    \cup {[NoTransferCall EXCEPT !.tf = in[1], !.color = in[2]] :
              in \in {x \in CurveCodes \X Colours : PowDefined(x[2], x[1])}}

CallTransferWhiteLevel ==
    /\ call.fn = "input"
    /\ call.color = <<>>
    /\ call' = [call EXCEPT !.fn = "transferWhiteLevel",
                            !.result = transferWhiteLevel(call.tf)]
    /\ UNCHANGED <<screen_vars, pass, timer, threads>>

CallFromLinearRGB ==
    /\ call.fn = "input"
    /\ call.color # <<>>
    /\ call' = [call EXCEPT !.fn = "fromLinearRGB",
                            !.result = fromLinearRGB(call.color, call.tf)]
    /\ UNCHANGED <<screen_vars, pass, timer, threads>>

CallToLinearRGB ==
    /\ call.fn = "input"
    /\ call.color # <<>>
    /\ call' = [call EXCEPT !.fn = "toLinearRGB",
                            !.result = toLinearRGB(call.color, call.tf)]
    /\ UNCHANGED <<screen_vars, pass, timer, threads>>

\* toLinearRGB applied to the code fromLinearRGB has just returned.
CallToLinearRGBOfCode ==
    /\ call.fn = "fromLinearRGB"
    /\ call' = [call EXCEPT !.fn = "roundtrip", !.code = call.result,
                            !.result = toLinearRGB(call.result, call.tf)]
    /\ UNCHANGED <<screen_vars, pass, timer, threads>>

NextTransfer ==
    \/ CallTransferWhiteLevel
    \/ CallFromLinearRGB
    \/ CallToLinearRGB
    \/ CallToLinearRGBOfCode

InitTransfer ==
    /\ call \in TransferInputs
    /\ platform = [win32 |-> FALSE, shader_compiles |-> TRUE, depth_stencil |-> FALSE]
    /\ environ = Unset
    /\ InitWindows
    /\ pass = NoPass
    /\ timer = NoTimer
    /\ threads = NoThreads

SpecTransfer == InitTransfer /\ [][NextTransfer]_vars

\* C22: transferWhiteLevel returns 10000 for ST2084/PQ, 1000 for HLG, 100
\* for BT.1886 and for xvYCC, and 80 for every other code, sRGB, ext-sRGB
\* and the codes outside 1..13 included; nothing else is ever returned.
C22_WhiteLevels ==
    call.fn = "transferWhiteLevel" =>
        /\ call.result \in {Q(80, 1), Q(100, 1), Q(1000, 1), Q(10000, 1)}
        /\ call.result = Q(10000, 1) <=> call.tf = CM_TRANSFER_FUNCTION_ST2084_PQ
        /\ call.result = Q(1000, 1) <=> call.tf = CM_TRANSFER_FUNCTION_HLG
        /\ call.result = Q(100, 1) <=>
               call.tf \in {CM_TRANSFER_FUNCTION_BT1886, CM_TRANSFER_FUNCTION_XVYCC}

C22_Witness ==
    /\ call.fn = "transferWhiteLevel"
    /\ call.tf = CM_TRANSFER_FUNCTION_XVYCC
    /\ call.result = Q(100, 1)

\* The function a call applies, on any colour.
Applied(fn, color, tf) ==
    IF fn = "toLinearRGB" THEN toLinearRGB(color, tf) ELSE fromLinearRGB(color, tf)

Negated(color) == [i \in 1..3 |-> Times(color[i], Q(-1, 1))]

\* The function whose mirrored variant the code selects.
Unsigned(tf) ==
    IF tf = CM_TRANSFER_FUNCTION_XVYCC THEN CM_TRANSFER_FUNCTION_BT1886
    ELSE CM_TRANSFER_FUNCTION_SRGB

\* C23: forward and inverse, the xvYCC function equals the BT.1886 one on
\* every positive input, maps 0 to 0 and is odd, f(-x) = -f(x); ext-sRGB
\* stands to sRGB in the same relation.
C23_MirroredVariants ==
    (/\ call.fn \in {"fromLinearRGB", "toLinearRGB"}
     /\ call.tf \in {CM_TRANSFER_FUNCTION_XVYCC, CM_TRANSFER_FUNCTION_EXT_SRGB}) =>
        /\ \A i \in 1..3 :
              /\ call.color[i].n > 0 =>
                     call.result[i]
                         = Applied(call.fn, vec3(call.color[i]), Unsigned(call.tf))[i]
              /\ call.color[i].n = 0 => call.result[i] = Q(0, 1)
        /\ Applied(call.fn, Negated(call.color), call.tf) = Negated(call.result)

C23_Witness ==
    /\ call.fn = "fromLinearRGB"
    /\ call.tf = CM_TRANSFER_FUNCTION_XVYCC
    /\ call.color[1] = Q(-1, 2)
    /\ ~IsQ(call.result[1])
    /\ call.color[2] = Q(0, 1)
    /\ call.color[3] = Q(1, 1)

C25_ChannelsIndependent ==
    (/\ call.fn \in {"fromLinearRGB", "toLinearRGB"}
     /\ call.tf # CM_TRANSFER_FUNCTION_EXT_LINEAR) =>
        \A other \in Colours :
            PowDefined(other, call.tf) =>
                \A i \in 1..3 :
                    other[i] = call.color[i] =>
                        Applied(call.fn, other, call.tf)[i] = call.result[i]

\* One channel on the power branch, another on the linear one.
C25_Witness ==
    /\ call.fn = "fromLinearRGB"
    /\ call.tf = CM_TRANSFER_FUNCTION_SRGB
    /\ call.color[1] = Q(1, 2)
    /\ ~IsQ(call.result[1])
    /\ call.color[2] = Q(1, 1024)
    /\ call.result[2] = QMul(Q(1, 1024), SRGB_SCALE)


(***************************************************************************)
(* ema.h: the exponentially weighted moving average.  Value is float, in   *)
(* the arithmetic of the top of the module.                                *)
(***************************************************************************)
MaxSamples == 4

Weights ==
    {NaN, NegInf, F(-1), FNorm(-1, 2), F(0), FNorm(1, 2), FNorm(3, 4), F(1),
     F(2), PosInf}

Samples == {F(0), F(1), F(2)}

\* EMA::EMA: the members are initialised, then the weight is tested.
EMA_ctor(weight) ==
    IF FLt(weight, F(0)) \/ FGe(weight, F(1))
    THEN Throw("invalid_argument", "Weight must be in range [0, 1)")
    ELSE Ok([m_weights |-> <<weight, FSub(F(1), weight)>>, m_value |-> F(0),
             m_sample_count |-> 0])

reset(ema) == [ema EXCEPT !.m_value = F(0), !.m_sample_count = 0]

put(ema, sample) ==
    [ema EXCEPT !.m_value = FAdd(FMul(ema.m_weights[1], ema.m_value),
                                 FMul(sample, ema.m_weights[2])),
                !.m_sample_count = @ + 1]

EMAInputs == {[fn |-> "input", weight |-> w, result |-> Ok("pending")] : w \in Weights}

NewEMA ==
    /\ call.fn = "input"
    /\ call' = [call EXCEPT !.fn = "EMA", !.result = EMA_ctor(call.weight)]
    /\ UNCHANGED <<screen_vars, pass, timer, threads>>

Put ==
    /\ call.fn \in {"EMA", "put", "reset"}
    /\ call.result.ok
    /\ call.result.val.m_sample_count < MaxSamples
    /\ \E sample \in Samples :
           call' = [call EXCEPT !.fn = "put", !.result = Ok(put(call.result.val, sample))]
    /\ UNCHANGED <<screen_vars, pass, timer, threads>>

Reset ==
    /\ call.fn \in {"EMA", "put", "reset"}
    /\ call.result.ok
    /\ call' = [call EXCEPT !.fn = "reset", !.result = Ok(reset(call.result.val))]
    /\ UNCHANGED <<screen_vars, pass, timer, threads>>

NextEMA == NewEMA \/ Put \/ Reset

InitEMA ==
    /\ call \in EMAInputs
    /\ platform = [win32 |-> FALSE, shader_compiles |-> TRUE, depth_stencil |-> FALSE]
    /\ environ = Unset
    /\ InitWindows
    /\ pass = NoPass
    /\ timer = NoTimer
    /\ threads = NoThreads

SpecEMA == InitEMA /\ [][NextEMA]_vars

\* C26: the constructor succeeds exactly when 0 <= weight < 1; any other
\* weight raises invalid_argument, after which there is no accumulator.
C26_WeightInRange ==
    call.fn \in {"EMA", "put", "reset"} =>
        /\ call.result.ok <=> (FLe(F(0), call.weight) /\ FLt(call.weight, F(1)))
        /\ ~call.result.ok => call.result.err = "invalid_argument"

\* What does hold: a weight that compares below 0 or at least 1 raises.
OutOfRangeRaises ==
    (call.fn = "EMA" /\ (FLt(call.weight, F(0)) \/ FGe(call.weight, F(1)))) =>
        ~call.result.ok /\ call.result.err = "invalid_argument"


(***************************************************************************)
(* Screen::redraw against the Lazy main loop.  One screen, visible and not *)
(* closing; the main thread runs mainloop_iteration over and over, another *)
(* thread and the callbacks run while a frame is drawn call redraw().      *)
(* glfwWaitEvents returns when an event is queued, glfwPostEmptyEvent      *)
(* queues one.  Reads and writes of m_redraw are taken one at a time.      *)
(***************************************************************************)
MaxRedraws == 3

MaxFrames == 3

NoRedraw ==
    [scenario |-> "redraw",
     m_redraw |-> TRUE,          \* set by the constructor: the first frame
     event_queued |-> FALSE,     \* glfw: an event waits for the main thread
     main |-> "draw_all",        \* draw_all, drawing, drawn, glfwWaitEvents
     caller |-> "idle",          \* the other thread: idle, or inside redraw()
     redraws |-> 0,              \* calls of redraw() made
     frames |-> 0,               \* frames drawn
     owed |-> FALSE,             \* redraw() returned, no frame started since
     window_events |-> 0]        \* events of the window system delivered

\* draw_all: `if (run_mode() != RunMode::Lazy || m_redraw)`, in Lazy mode.
DrawAllTest ==
    /\ threads.scenario = "redraw"
    /\ threads.main = "draw_all"
    /\ threads' = IF threads.m_redraw
                  THEN [threads EXCEPT !.main = "drawing", !.owed = FALSE]
                  ELSE [threads EXCEPT !.main = "glfwWaitEvents"]
    /\ UNCHANGED <<call, screen_vars, pass, timer>>

\* draw_setup .. draw_teardown.
DrawFrame ==
    /\ threads.scenario = "redraw"
    /\ threads.main = "drawing"
    /\ threads' = [threads EXCEPT !.main = "drawn",
                                  !.frames = IF @ < MaxFrames THEN @ + 1 ELSE @]
    /\ UNCHANGED <<call, screen_vars, pass, timer>>

\* `m_redraw = false;` at the end of draw_all.
DrawAllReset ==
    /\ threads.scenario = "redraw"
    /\ threads.main = "drawn"
    /\ threads' = [threads EXCEPT !.main = "glfwWaitEvents", !.m_redraw = FALSE]
    /\ UNCHANGED <<call, screen_vars, pass, timer>>

\* glfwWaitEvents returns; the next iteration begins.
WaitEventsReturns ==
    /\ threads.scenario = "redraw"
    /\ threads.main = "glfwWaitEvents"
    /\ threads.event_queued
    /\ threads' = [threads EXCEPT !.main = "draw_all", !.event_queued = FALSE]
    /\ UNCHANGED <<call, screen_vars, pass, timer>>

\* redraw() on another thread: glfwPostEmptyEvent() ...
RedrawPostsEvent ==
    /\ threads.scenario = "redraw"
    /\ threads.caller = "idle"
    /\ threads.redraws < MaxRedraws
    /\ threads' = [threads EXCEPT !.caller = "posted", !.event_queued = TRUE,
                                  !.redraws = @ + 1]
    /\ UNCHANGED <<call, screen_vars, pass, timer>>

\* ... then `m_redraw = true;`.
RedrawSetsFlag ==
    /\ threads.scenario = "redraw"
    /\ threads.caller = "posted"
    /\ threads' = [threads EXCEPT !.caller = "idle", !.m_redraw = TRUE,
                                  !.owed = TRUE]
    /\ UNCHANGED <<call, screen_vars, pass, timer>>

\* redraw() called by draw_contents or a widget while the frame is drawn.
RedrawWhileDrawing ==
    /\ threads.scenario = "redraw"
    /\ threads.main = "drawing"
    /\ threads.redraws < MaxRedraws
    /\ threads' = [threads EXCEPT !.event_queued = TRUE, !.m_redraw = TRUE,
                                  !.owed = TRUE, !.redraws = @ + 1]
    /\ UNCHANGED <<call, screen_vars, pass, timer>>

\* An event of the window system that requests no redraw.
WindowEvent ==
    /\ threads.scenario = "redraw"
    /\ threads.window_events < MaxEvents
    /\ threads' = [threads EXCEPT !.event_queued = TRUE, !.window_events = @ + 1]
    /\ UNCHANGED <<call, screen_vars, pass, timer>>

MainLoopSteps == DrawAllTest \/ DrawFrame \/ DrawAllReset \/ WaitEventsReturns

NextRedraw ==
    \/ MainLoopSteps
    \/ RedrawPostsEvent
    \/ RedrawSetsFlag
    \/ RedrawWhileDrawing
    \/ WindowEvent

InitRedraw ==
    /\ call = IdleCall
    /\ platform = [win32 |-> FALSE, shader_compiles |-> TRUE, depth_stencil |-> FALSE]
    /\ environ = Unset
    /\ InitWindows
    /\ pass = NoPass
    /\ timer = NoTimer
    /\ threads = NoRedraw

SpecRedraw == InitRedraw /\ [][NextRedraw]_vars

\* The main thread keeps running and a call of redraw() runs to its end;
\* nobody has to call redraw() and no window event has to arrive.
SpecRedrawFair ==
    SpecRedraw /\ WF_vars(MainLoopSteps) /\ WF_vars(RedrawSetsFlag)

\* C27: in Lazy mode every redraw(), from another thread or made while a
\* frame is drawn, is followed by a frame that draw_all starts after it,
\* with no further window event.
C27_RedrawIsDrawn == threads.owed ~> ~threads.owed


(***************************************************************************)
(* async() against the main loop.  The main thread runs the first block of *)
(* mainloop_iteration over and over; another thread submits functions.  A  *)
(* function is plain, or calls async() itself while it runs.  Locking      *)
(* m_async_mutex, a std::mutex, on the thread that holds it is undefined:  *)
(* the thread blocks on itself, or the lock fails with system_error.       *)
(***************************************************************************)
MaxFunctions == 3

FunctionKinds == {"plain", "submits"}

NoAsync ==
    [scenario |-> "async",
     m_async_mutex |-> "free",   \* free, or the thread that holds it
     m_async_functions |-> <<>>, \* the kinds of the functions queued
     main |-> "lock",            \* lock, run, clear, blocked, raised
     next |-> 1,                 \* the position of the range-for
     other |-> "idle",           \* the submitting thread: idle, or in async()
     submitted |-> 0,            \* functions handed to async() and pushed
     executed |-> <<>>]          \* submission numbers, in order of execution

IsPrefixOfSubmissions(executed, submitted) ==
    /\ Len(executed) <= submitted
    /\ \A k \in 1..Len(executed) : executed[k] = k

\* mainloop_iteration: `std::lock_guard<std::mutex> guard(m_async_mutex);`
MainLocks ==
    /\ threads.scenario = "async"
    /\ threads.main = "lock"
    /\ threads.m_async_mutex = "free"
    /\ threads' = [threads EXCEPT !.m_async_mutex = "main", !.main = "run", !.next = 1]
    /\ UNCHANGED <<call, screen_vars, pass, timer>>

\* `for (auto &f : m_async_functions) f();`: one f.  The functions queued
\* are the submissions not yet cleared, in order.
MainRunsFunction ==
    /\ threads.scenario = "async"
    /\ threads.main = "run"
    /\ threads.next <= Len(threads.m_async_functions)
    /\ \/ /\ threads.m_async_functions[threads.next] = "plain"
          /\ threads' = [threads EXCEPT
                 !.next = @ + 1,
                 !.executed = Append(@, threads.submitted
                                        - Len(threads.m_async_functions) + threads.next)]
       \/ /\ threads.m_async_functions[threads.next] = "submits"
          /\ \E outcome \in {"blocked", "raised"} :
                 threads' = [threads EXCEPT
                     !.main = outcome,
                     !.m_async_mutex = IF outcome = "raised" THEN "free" ELSE @,
                     !.executed = Append(@, threads.submitted
                                            - Len(threads.m_async_functions)
                                            + threads.next)]
    /\ UNCHANGED <<call, screen_vars, pass, timer>>

\* `m_async_functions.clear();`, the guard is released, the iteration goes on.
MainClears ==
    /\ threads.scenario = "async"
    /\ threads.main = "run"
    /\ threads.next > Len(threads.m_async_functions)
    /\ threads' = [threads EXCEPT !.m_async_functions = <<>>,
                                  !.m_async_mutex = "free", !.main = "lock"]
    /\ UNCHANGED <<call, screen_vars, pass, timer>>

\* async() on the other thread: the lock_guard ...
AsyncLocks ==
    /\ threads.scenario = "async"
    /\ threads.other = "idle"
    /\ threads.submitted < MaxFunctions
    /\ threads.m_async_mutex = "free"
    /\ threads' = [threads EXCEPT !.m_async_mutex = "other", !.other = "locked"]
    /\ UNCHANGED <<call, screen_vars, pass, timer>>

\* ... then push_back, and the guard is released.
AsyncPushes ==
    /\ threads.scenario = "async"
    /\ threads.other = "locked"
    /\ \E kind \in FunctionKinds :
           threads' = [threads EXCEPT !.m_async_functions = Append(@, kind),
                                      !.submitted = @ + 1,
                                      !.m_async_mutex = "free", !.other = "idle"]
    /\ UNCHANGED <<call, screen_vars, pass, timer>>

MainAsyncSteps == MainLocks \/ MainRunsFunction \/ MainClears

NextAsync == MainAsyncSteps \/ AsyncLocks \/ AsyncPushes

InitAsync ==
    /\ call = IdleCall
    /\ platform = [win32 |-> FALSE, shader_compiles |-> TRUE, depth_stencil |-> FALSE]
    /\ environ = Unset
    /\ InitWindows
    /\ pass = NoPass
    /\ timer = NoTimer
    /\ threads = NoAsync

SpecAsync == InitAsync /\ [][NextAsync]_vars

\* The main thread keeps running and a call of async() that holds the
\* mutex runs to its end; nobody has to submit anything.
SpecAsyncFair == SpecAsync /\ WF_vars(MainAsyncSteps) /\ WF_vars(AsyncPushes)

\* C28: every function submitted with async(), also one submitted by a
\* function the main loop is running out of the queue, is executed once,
\* in submission order, and the main loop never blocks on the mutex for
\* good nor leaves the loop over it.
C28_AsyncRunsEachOnceInOrder ==
    /\ [](/\ IsPrefixOfSubmissions(threads.executed, threads.submitted)
          /\ threads.main \notin {"blocked", "raised"})
    /\ \A k \in 1..MaxFunctions :
           (threads.submitted >= k) ~> (Len(threads.executed) >= k)

\* What does hold: nothing runs twice or out of order.
AsyncOrderKept == IsPrefixOfSubmissions(threads.executed, threads.submitted)


(***************************************************************************)
(* Object::inc_ref / Object::dec_ref with no Python object attached:       *)
(* m_state is odd and holds 2 * count + 1.  Every load and every           *)
(* compare-exchange of the atomic is one step; a spurious failure of the   *)
(* weak compare-exchange reloads the same value and changes nothing.  A    *)
(* thread calls while it owns a reference; the creator takes the first     *)
(* one.  References pass between threads without touching the count.       *)
(***************************************************************************)
NumOwners == 2

MaxRefs == 3

\* One pass of the loop of inc_ref, for the value the thread holds.
inc_ref(m_state, value) ==
    IF m_state = value
    THEN [m_state |-> value + 2, value |-> value, outcome |-> "done"]
    ELSE [m_state |-> m_state, value |-> m_state, outcome |-> "again"]

\* The decrement as a store of value - 2 instead of a compare-exchange.
dec_ref_Store(m_state, value) ==
    IF value = 1 THEN [m_state |-> m_state, value |-> value, outcome |-> "abort"]
    ELSE IF value = 3 THEN [m_state |-> m_state, value |-> value, outcome |-> "delete"]
    ELSE [m_state |-> value - 2, value |-> value, outcome |-> "done"]

\* One pass of the loop of dec_ref.
dec_ref(m_state, value) ==
    IF value = 1 THEN [m_state |-> m_state, value |-> value, outcome |-> "abort"]
    ELSE IF value = 3 THEN [m_state |-> m_state, value |-> value, outcome |-> "delete"]
    ELSE IF m_state = value
    THEN [m_state |-> value - 2, value |-> value, outcome |-> "done"]
    ELSE [m_state |-> m_state, value |-> m_state, outcome |-> "again"]

Owners == 1..NumOwners

NoRefs ==
    [scenario |-> "refs",
     m_state |-> 1,
     pc |-> [t \in Owners |-> "idle"],      \* idle, inc_ref, dec_ref: before the load;
                                            \* inc_loop, dec_loop: in the loop
     value |-> [t \in Owners |-> 0],        \* the local of the call in progress
     owned |-> [t \in Owners |-> 0],        \* references the thread owns
     referenced |-> FALSE,                  \* a first reference has been taken
     deleted |-> 0,                         \* times `delete this` ran
     aborted |-> FALSE]

RECURSIVE Outstanding(_, _)
Outstanding(owned, t) == IF t = 0 THEN 0 ELSE owned[t] + Outstanding(owned, t - 1)

ObjectAlive == threads.scenario = "refs" /\ threads.deleted = 0 /\ ~threads.aborted

\* The creator, with the fresh object in hand, or a thread that owns a
\* reference, enters inc_ref or dec_ref.
CallRef ==
    /\ ObjectAlive
    /\ \E t \in Owners, fn \in {"inc_ref", "dec_ref"} :
           /\ threads.pc[t] = "idle"
           /\ \/ threads.owned[t] > 0
              \/ t = 1 /\ ~threads.referenced
           /\ fn = "inc_ref" => Outstanding(threads.owned, NumOwners) < MaxRefs
           /\ threads' = [threads EXCEPT !.pc[t] = fn]
    /\ UNCHANGED <<call, screen_vars, pass, timer>>

\* `uintptr_t value = m_state.load(std::memory_order_relaxed);`
LoadState ==
    /\ ObjectAlive
    /\ \E t \in Owners :
           /\ threads.pc[t] \in {"inc_ref", "dec_ref"}
           /\ threads' = [threads EXCEPT
                  !.pc[t] = IF @ = "inc_ref" THEN "inc_loop" ELSE "dec_loop",
                  !.value[t] = threads.m_state]
    /\ UNCHANGED <<call, screen_vars, pass, timer>>

IncRefPass ==
    /\ ObjectAlive
    /\ \E t \in Owners :
           /\ threads.pc[t] = "inc_loop"
           /\ threads' =
                  [threads EXCEPT
                      !.m_state = inc_ref(threads.m_state, threads.value[t]).m_state,
                      !.value[t] = inc_ref(threads.m_state, threads.value[t]).value,
                      !.pc[t] = IF inc_ref(threads.m_state, threads.value[t]).outcome
                                    = "done" THEN "idle" ELSE @,
                      !.owned[t] = IF inc_ref(threads.m_state, threads.value[t]).outcome
                                       = "done" THEN @ + 1 ELSE @,
                      !.referenced = TRUE]
    /\ UNCHANGED <<call, screen_vars, pass, timer>>

DecRefPass ==
    /\ ObjectAlive
    /\ \E t \in Owners :
           /\ threads.pc[t] = "dec_loop"
           /\ threads' =
                  [threads EXCEPT
                      !.m_state = dec_ref(threads.m_state, threads.value[t]).m_state,
                      !.value[t] = dec_ref(threads.m_state, threads.value[t]).value,
                      !.pc[t] = IF dec_ref(threads.m_state, threads.value[t]).outcome
                                    = "again" THEN @ ELSE "idle",
                      !.owned[t] = IF dec_ref(threads.m_state, threads.value[t]).outcome
                                       \in {"done", "delete"} THEN @ - 1 ELSE @,
                      !.deleted = IF dec_ref(threads.m_state, threads.value[t]).outcome
                                      = "delete" THEN @ + 1 ELSE @,
                      !.aborted = dec_ref(threads.m_state, threads.value[t]).outcome
                                      = "abort"]
    /\ UNCHANGED <<call, screen_vars, pass, timer>>

\* A thread between calls hands one of its references to another thread.
PassReference ==
    /\ ObjectAlive
    /\ \E t \in Owners, u \in Owners :
           /\ t # u
           /\ threads.pc[t] = "idle"
           /\ threads.owned[t] > 0
           /\ threads' = [threads EXCEPT !.owned[t] = @ - 1, !.owned[u] = @ + 1]
    /\ UNCHANGED <<call, screen_vars, pass, timer>>

NextRefs == CallRef \/ LoadState \/ IncRefPass \/ DecRefPass \/ PassReference

InitRefs ==
    /\ call = IdleCall
    /\ platform = [win32 |-> FALSE, shader_compiles |-> TRUE, depth_stencil |-> FALSE]
    /\ environ = Unset
    /\ InitWindows
    /\ pass = NoPass
    /\ timer = NoTimer
    /\ threads = NoRefs

SpecRefs == InitRefs /\ [][NextRefs]_vars

\* C29: under every interleaving the stored count is the number of
\* references outstanding; the object is deleted once, exactly when the
\* last reference is dropped and never while one is outstanding; dec_ref
\* on a count of zero aborts and leaves the count alone.
C29_CountIsOutstanding ==
    threads.scenario = "refs" =>
        /\ threads.m_state >= 1
        /\ threads.deleted = 0 =>
               threads.m_state = 2 * Outstanding(threads.owned, NumOwners) + 1
        /\ threads.deleted <= 1
        /\ threads.deleted = 1 <=>
               (threads.referenced /\ Outstanding(threads.owned, NumOwners) = 0)
        /\ threads.aborted =>
               (threads.m_state = 1 /\ ~threads.referenced /\ threads.deleted = 0)
        /\ \A t \in Owners :
               (threads.pc[t] = "dec_loop" /\ threads.value[t] = 1) =>
                   dec_ref(threads.m_state, threads.value[t]).outcome = "abort"

\* Two threads dropped the last two references: the second thread took the
\* count from 2 to 1, the first one found 1 and deleted the object.
C29_Witness ==
    /\ threads.scenario = "refs"
    /\ threads.deleted = 1
    /\ threads.value[1] = 3
    /\ threads.value[2] = 5
    /\ Outstanding(threads.owned, NumOwners) = 0


\* The screens an iteration of the main loop draws: registered, visible,
\* with no close request.
ScreensToDraw ==
    {s \in Screens : /\ screens[s].status = "ok"
                     /\ screens[s].m_visible
                     /\ ~glfw[s].should_close}

\* C30: an iteration that finds no screen to draw makes the closing screens
\* invisible and sets the mode to Stopped, after which the loop's only step
\* is the return of run(); an iteration that draws a screen without an
\* exception leaves the mode alone; run() while the mode is not Stopped
\* raises and changes neither the mode nor the loop.
C30_RunStopsWithoutScreens ==
    [][/\ (MainloopIteration /\ ScreensToDraw = {}) =>
              /\ run_state'.mode = "Stopped"
              /\ run_state'.pc = "loop"
              /\ \A s \in Screens : ~screens'[s].m_visible
       /\ (MainloopIteration /\ ScreensToDraw # {} /\ run_state'.caught = "") =>
              run_state'.mode = run_state.mode
       /\ (run_state.pc = "loop" /\ run_state.mode = "Stopped"
               /\ run_state' # run_state) =>
              run_state' = [run_state EXCEPT !.pc = "idle"]
       /\ (Run /\ run_state.mode # "Stopped") =>
              run_state' = [run_state EXCEPT !.refused = TRUE]
       /\ (run_state.pc # "loop" /\ run_state'.pc = "loop") =>
              run_state.mode = "Stopped"]_vars

\* The loop has stopped over a window with a close request, and a run()
\* made while it was active had been refused.
C30_Witness ==
    /\ run_state.pc = "loop"
    /\ run_state.mode = "Stopped"
    /\ run_state.refused
    /\ \E s \in Screens :
           screens[s].status = "ok" /\ glfw[s].should_close /\ ~screens[s].m_visible

====
